---- MODULE Spec2Model ----
(***************************************************************************)
(* Receipt-text extraction core: normalizeAmount, extractAmount,            *)
(* extractDate, extractProvider, extractDescription, heuristicExtraction    *)
(* (src/lib/imagePreprocessing.ts) and the repair pass validateAndFixFields *)
(* (src/app/api/upload-receipt/route.ts).                                   *)
(*                                                                         *)
(* A text is a sequence of one-character strings.  A nullable value is a   *)
(* sequence of length 0 (null) or 1 (the value).  Amounts are integers in   *)
(* hundredths.  A confidence is an IEEE-754 double, held as a pair <<h, e>> *)
(* that stands for the number (h * 2^60 + e) / (100 * 2^60).                *)
(***************************************************************************)
EXTENDS Integers, Sequences, FiniteSets, TLC

VARIABLES fn, arg, pc, ret, calls, response, lastIndex, history,
          uploadReceipt, recordHistory, post

vars == <<fn, arg, pc, ret, calls, response, lastIndex, history,
          uploadReceipt, recordHistory, post>>

(***************************************************************************)
(* Characters and strings                                                  *)
(***************************************************************************)
DigitChars == <<"0", "1", "2", "3", "4", "5", "6", "7", "8", "9">>

UpperChars == <<"A", "B", "C", "D", "E", "F", "G", "H", "I", "J", "K", "L", "M",
                "N", "O", "P", "Q", "R", "S", "T", "U", "V", "W", "X", "Y", "Z">>

LowerChars == <<"a", "b", "c", "d", "e", "f", "g", "h", "i", "j", "k", "l", "m",
                "n", "o", "p", "q", "r", "s", "t", "u", "v", "w", "x", "y", "z">>

Range(s) == {s[i] : i \in 1..Len(s)}

Digit == Range(DigitChars)

Upper == Range(UpperChars)

Lower == Range(LowerChars)

Letter == Upper \cup Lower

\* \s of a regular expression (the white space the texts here can hold)
Space == {" ", "\n", "\t"}

Separator == {".", ","}

DigitOf == [c \in Digit |-> (CHOOSE i \in 1..10 : DigitChars[i] = c) - 1]

toLowerChar(c) ==
  IF c \in Upper THEN LowerChars[CHOOSE i \in 1..26 : UpperChars[i] = c] ELSE c

toUpperChar(c) ==
  IF c \in Lower THEN UpperChars[CHOOSE i \in 1..26 : LowerChars[i] = c] ELSE c

\* String.prototype.toLowerCase / toUpperCase
toLowerCase(s) == [i \in 1..Len(s) |-> toLowerChar(s[i])]

toUpperCase(s) == [i \in 1..Len(s) |-> toUpperChar(s[i])]

\* s.substring(from - 1, to) with 1-based inclusive bounds, clipped to s
Sub(s, from, to) ==
  LET a == IF from < 1 THEN 1 ELSE from
      b == IF to > Len(s) THEN Len(s) ELSE to
  IN IF a > b THEN <<>> ELSE SubSeq(s, a, b)

\* sub occurs in s starting at position i
OccursAt(s, sub, i) ==
  /\ i >= 1
  /\ i + Len(sub) - 1 <= Len(s)
  /\ \A k \in 1..Len(sub) : s[i + k - 1] = sub[k]

\* String.prototype.includes
includes(s, sub) == \E i \in 1..(Len(s) - Len(sub) + 1) : OccursAt(s, sub, i)

\* String.prototype.trim
trim(s) ==
  LET keep == {i \in 1..Len(s) : s[i] \notin Space}
  IN IF keep = {} THEN <<>>
     ELSE SubSeq(s, CHOOSE i \in keep : \A j \in keep : i <= j,
                    CHOOSE i \in keep : \A j \in keep : i >= j)


Min(S) == CHOOSE x \in S : \A y \in S : x <= y

Max(S) == CHOOSE x \in S : \A y \in S : x >= y

\* the elements of s at the positions lo..hi that are in the set at, in order
RECURSIVE Between(_, _, _, _)
Between(s, at, lo, hi) ==
  IF lo > hi THEN <<>>
  ELSE IF lo = hi THEN IF lo \in at THEN <<s[lo]>> ELSE <<>>
  ELSE Between(s, at, lo, (lo + hi) \div 2) \o Between(s, at, (lo + hi) \div 2 + 1, hi)

\* the elements of s at the positions of the set at, in order
AtPositions(s, at) == Between(s, at, 1, Len(s))

\* the characters of s that are in the set keep, in order
Filter(s, keep) == AtPositions(s, {i \in 1..Len(s) : s[i] \in keep})

\* s.replace(/\s+/g, ' '): every maximal run of white space becomes one blank
collapseSpaces(s) ==
  LET blank == [i \in 1..Len(s) |-> IF s[i] \in Space THEN " " ELSE s[i]]
  IN AtPositions(blank, {i \in 1..Len(s) : s[i] \notin Space \/ i = 1 \/ s[i - 1] \notin Space})

\* the end of the longest run of characters of the set cls that starts at i
\* (i - 1 when s[i] is not in cls)
RunEnd(s, i, cls) ==
  LET stop == {j \in i..Len(s) : s[j] \notin cls}
  IN IF i > Len(s) THEN i - 1
     ELSE IF stop = {} THEN Len(s)
     ELSE Min(stop) - 1

\* \b holds between position i - 1 and position i (word is \w without the u flag)
WordBoundary(s, i) ==
  LET word == Letter \cup Digit \cup {"_"}
      before == i > 1 /\ i - 1 <= Len(s) /\ s[i - 1] \in word
      after == i >= 1 /\ i <= Len(s) /\ s[i] \in word
  IN before # after

\* nullable values
Null == <<>>

Some(v) == <<v>>

IsNull(o) == o = <<>>

Val(o) == o[1]

\* the decimal value of a string of digits (0 for the empty string)
RECURSIVE DigitsValue(_)
DigitsValue(d) ==
  IF d = <<>> THEN 0
  ELSE 10 * DigitsValue(SubSeq(d, 1, Len(d) - 1)) + DigitOf[d[Len(d)]]

\* the decimal digits of a natural number, as number.toString() prints them
RECURSIVE toDigits(_)
toDigits(n) ==
  IF n < 10 THEN <<DigitChars[n + 1]>>
  ELSE toDigits(n \div 10) \o <<DigitChars[(n % 10) + 1]>>

\* String.prototype.padStart(2, '0')
padStart2(s) == IF Len(s) < 2 THEN <<"0">> \o s ELSE s

(***************************************************************************)
(* IEEE-754 binary64 arithmetic on confidences.  <<h, e>> is the double     *)
(* (h * 2^60 + e) / (100 * 2^60): h is the value in hundredths and e the    *)
(* distance of the double from h/100 in units of 2^-60 / 100.               *)
(***************************************************************************)
\* the double a decimal literal h/100 of the source denotes: error is e of the
\* double nearest to h/100, for the literals of the source
Lit(h) ==
  LET error ==
        (0 :> 0) @@ (2 :> 48) @@ (3 :> -128) @@ (5 :> 320) @@ (10 :> 640) @@
        (20 :> 1280) @@ (30 :> -1280) @@ (40 :> 2560) @@ (50 :> 0) @@
        (60 :> -2560) @@ (70 :> -5120) @@ (80 :> 5120) @@ (85 :> -2560) @@
        (90 :> 2560) @@ (95 :> -5120) @@ (98 :> -2048) @@ (100 :> 0)
  IN <<h, error[h]>>

FLess(a, b) == a[1] < b[1] \/ (a[1] = b[1] /\ a[2] < b[2])

FLeq(a, b) == a = b \/ FLess(a, b)

\* The exact number <<h, e>> rounded to the nearest double, ties to even.
\* Ulp is the spacing of the doubles around a positive number, in 2^-60;
\* x is the number in units of 2^-60, modulo 512 (2^60 % 51200 = 24576).
Round(h, e) ==
  LET Ulp(a, b) ==
        IF a > 100 \/ (a = 100 /\ b >= 0) THEN 256
        ELSE IF a > 50 \/ (a = 50 /\ b >= 0) THEN 128
        ELSE IF a > 25 \/ (a = 25 /\ b >= 0) THEN 64
        ELSE IF a >= 13 THEN 32
        ELSE IF a >= 7 THEN 16
        ELSE IF a >= 4 THEN 8
        ELSE IF a >= 2 THEN 4
        ELSE 1
      \* the step to the nearest multiple of u from a number with remainder r
      \* and quotient q
      Adj(u, r, q) ==
        IF 2 * r < u THEN 0 - r
        ELSE IF 2 * r > u THEN u - r
        ELSE IF q % 2 = 0 THEN 0 - r ELSE u - r
      Step(u, x) == Adj(u, x % u, (x - (x % u)) \div u)
      RoundPos(a, b) ==
        <<a, b + 100 * Step(Ulp(a, b), ((a * 24576 + b) % 51200) \div 100)>>
      Negated(p) == <<0 - p[1], 0 - p[2]>>
  IN IF h < 0 \/ (h = 0 /\ e < 0) THEN Negated(RoundPos(0 - h, 0 - e))
     ELSE RoundPos(h, e)

\* a + b and a - b of two doubles
FAdd(a, b) == Round(a[1] + b[1], a[2] + b[2])

FSub(a, b) == Round(a[1] - b[1], a[2] - b[2])

\* Math.min(a, 1.0)
MinOne(a) == IF FLess(Lit(100), a) THEN Lit(100) ELSE a

(***************************************************************************)
(* normalizeAmount                                                         *)
(***************************************************************************)
\* the characters of /[$...Bs]/ under the i flag that a text here can hold
SymbolCharsI == {"$", "B", "b", "S", "s"}

\* cleaned.split(/[.,]/): the k-th part lies between the (k-1)-th and the
\* k-th separator
split(s) ==
  LET cuts == {0, Len(s) + 1} \cup {i \in 1..Len(s) : s[i] \in Separator}
      cut(k) == CHOOSE c \in cuts : Cardinality({x \in cuts : x < c}) = k
  IN [k \in 1..(Cardinality(cuts) - 1) |-> SubSeq(s, cut(k - 1) + 1, cut(k) - 1)]

\* parts.join('')
RECURSIVE join(_)
join(parts) == IF parts = <<>> THEN <<>> ELSE Head(parts) \o join(Tail(parts))

\* parseInt(s, 10): the number the leading digits of s denote, NaN (null here)
\* when s does not start with a digit
parseInt(s) ==
  LET r == RunEnd(s, 1, Digit)
  IN IF r < 1 THEN Null ELSE Some(DigitsValue(SubSeq(s, 1, r)))

\* parseFloat(`${int}.${frac}`) for digit strings int and frac, frac of at most
\* two digits: NaN (null here) when both are empty
parseFloat(int, frac) ==
  IF int = <<>> /\ frac = <<>> THEN Null
  ELSE Some(100 * DigitsValue(int)
            + (IF Len(frac) = 1 THEN 10 * DigitsValue(frac) ELSE DigitsValue(frac)))

\* normalizeAmount reading every separator as a thousands separator: the
\* properties of normalizeAmount must tell the two apart
normalizeAmountAllThousands(amountStr) ==
  IF amountStr = <<>> \/ trim(amountStr) = <<>> THEN Null
  ELSE parseFloat(Filter(amountStr, Digit), <<>>)

\* lines 531-603, in hundredths; of the class /[$...Bs]/ a text here can hold
\* "$", "B" and "s", and a cleaned string of one part is all digits
normalizeAmount(amountStr) ==
  LET Parts(cleaned, parts) ==
        IF Len(parts) = 1 THEN Some(100 * Val(parseInt(cleaned)))
        ELSE IF Len(parts) = 2 THEN
          IF Len(parts[2]) <= 2 THEN parseFloat(Filter(parts[1], Digit), parts[2])
          ELSE parseFloat(parts[1] \o parts[2], <<>>)
        ELSE IF Len(parts) = 3 THEN
          IF Len(parts[3]) <= 2 THEN parseFloat(parts[1] \o parts[2], parts[3])
          ELSE parseFloat(parts[1] \o parts[2] \o parts[3], <<>>)
        ELSE
          IF Len(parts[Len(parts)]) <= 2
          THEN parseFloat(join(SubSeq(parts, 1, Len(parts) - 1)), parts[Len(parts)])
          ELSE parseFloat(join(parts), <<>>)
      Cleaned(cleaned) ==
        IF cleaned = <<>> THEN Null ELSE Parts(cleaned, split(cleaned))
      Stripped(stripped) == Cleaned(Filter(stripped, Digit \cup Separator))
  IN IF amountStr = <<>> \/ trim(amountStr) = <<>> THEN Null
     ELSE Stripped(trim(Filter(amountStr, Range(amountStr) \ {"$", "B", "s"})))

(***************************************************************************)
(* AMOUNT_PATTERNS: the seven regular expressions, matched as the engine    *)
(* matches them (leftmost, greedy, backtracking in priority order).  A      *)
(* match is [index, end, groups]: index the first position, end the         *)
(* position after the last one, groups the captured strings ('' for a group *)
(* that captured nothing).                                                  *)
(***************************************************************************)
NoMatch == [index |-> 0, end |-> 0, groups |-> <<>>]

Match(i, e, g) == [index |-> i, end |-> e, groups |-> g]

\* the first element of seq that is in ok, 0 when there is none
FirstWith(seq, ok) ==
  LET at == {k \in 1..Len(seq) : seq[k] \in ok}
  IN IF at = {} THEN 0 ELSE seq[Min(at)]

IsDigitAt(s, p) == p >= 1 /\ p <= Len(s) /\ s[p] \in Digit

IsSepAt(s, p) == p >= 1 /\ p <= Len(s) /\ s[p] \in Separator

\* the position after the white space that starts at p (\s*, greedy)
SkipSpaces(s, p) == RunEnd(s, p, Space) + 1

\* [$...Bs] under the i flag at p
IsSymbolAt(s, p) == p >= 1 /\ p <= Len(s) /\ s[p] \in SymbolCharsI

\* the number of times (?:[.,][0-9]{3}) matches in a row from p
RECURSIVE GroupCount(_, _)
GroupCount(s, p) ==
  IF IsSepAt(s, p) /\ IsDigitAt(s, p + 1) /\ IsDigitAt(s, p + 2) /\ IsDigitAt(s, p + 3)
  THEN 1 + GroupCount(s, p + 4)
  ELSE 0

\* (?:[.,][0-9]{2}) at q
DecimalAt(s, q) == IsSepAt(s, q) /\ IsDigitAt(s, q + 1) /\ IsDigitAt(s, q + 2)

\* the ends of (?:[.,][0-9]{3})*(?:[.,][0-9]{2})? from p with at most k groups,
\* in the order the engine tries them
RECURSIVE TailEnds(_, _, _)
TailEnds(s, p, k) ==
  IF k < 0 THEN <<>>
  ELSE LET q == p + 4 * k
       IN (IF DecimalAt(s, q) THEN <<q + 3, q>> ELSE <<q>>) \o TailEnds(s, p, k - 1)

RECURSIVE NumEndsFrom(_, _, _, _)
NumEndsFrom(s, i, d, minD) ==
  IF d < minD THEN <<>>
  ELSE TailEnds(s, i + d, GroupCount(s, i + d)) \o NumEndsFrom(s, i, d - 1, minD)

\* the ends of [0-9]{minD,maxD}(?:[.,][0-9]{3})*(?:[.,][0-9]{2})? from i, in the
\* order the engine tries them
NumEnds(s, i, minD, maxD) ==
  LET run == RunEnd(s, i, Digit) - i + 1
  IN NumEndsFrom(s, i, IF run < maxD THEN run ELSE maxD, minD)

\* word occurs at i, letter case ignored
OccursAtI(s, word, i) ==
  /\ i >= 1
  /\ i + Len(word) - 1 <= Len(s)
  /\ \A k \in 1..Len(word) : toLowerChar(s[i + k - 1]) = toLowerChar(word[k])

\* the alternatives of the label group of pattern 2, in order; TRUE marks the
\* two that go on with \s*:
AmountLabels ==
  << << <<"t", "o", "t", "a", "l">>, FALSE >>, << <<"s", "u", "m", "a">>, FALSE >>,
     << <<"s", "u", "b", "t", "o", "t", "a", "l">>, FALSE >>,
     << <<"m", "o", "n", "t", "o">>, FALSE >>,
     << <<"i", "m", "p", "o", "r", "t", "e">>, FALSE >>,
     << <<"p", "r", "e", "c", "i", "o">>, FALSE >>,
     << <<"v", "a", "l", "o", "r">>, FALSE >>,
     << <<"t", "o", "t", "a", "l">>, TRUE >>, << <<"s", "u", "m", "a">>, TRUE >> >>

\* Pattern k of AMOUNT_PATTERNS matched at position i exactly.  DecimalEnd is
\* the end of [0-9]+[.,][0-9]{2} from i (0 when it does not match), LabelEnd(l)
\* the position after label alternative l matched at i (0 when it does not),
\* SymbolThenNumber(p) the match of \s*([$...Bs]?)\s*(NUM) from p.
AmountMatchAt(k, s, i) ==
  LET DecimalEnd ==
        LET r == RunEnd(s, i, Digit)
        IN IF r >= i /\ DecimalAt(s, r + 1) THEN r + 4 ELSE 0
      LabelEnd(l) ==
        LET word == AmountLabels[l][1]
            e == i + Len(word)
            c == SkipSpaces(s, e)
        IN IF ~OccursAtI(s, word, i) THEN 0
           ELSE IF ~AmountLabels[l][2] THEN e
           ELSE IF c <= Len(s) /\ s[c] = ":" THEN c + 1 ELSE 0
      \* the match of ([$...Bs]?)\s*(NUM) with the symbol group g and NUM from j
      Numbered(g, j, e) == Match(i, e, << g, SubSeq(s, j, e - 1) >>)
      Symbol(p1, p2) ==
        IF p1 <= Len(s) /\ s[p1] \in SymbolCharsI /\ IsDigitAt(s, p2)
        THEN Numbered(<<s[p1]>>, p2, NumEnds(s, p2, 1, 3)[1])
        ELSE IF IsDigitAt(s, p1)
        THEN Numbered(<<>>, p1, NumEnds(s, p1, 1, 3)[1])
        ELSE NoMatch
      SymbolThenNumber(p) == Symbol(SkipSpaces(s, p), SkipSpaces(s, SkipSpaces(s, p) + 1))
      AfterLabel(e) == IF e = 0 THEN NoMatch ELSE SymbolThenNumber(e)
      Labelled(l) == IF l = 0 THEN NoMatch ELSE AfterLabel(LabelEnd(l))
      \* the match of (NUM)\s*([$...Bs]) with NUM ending before e and the symbol at p
      BeforeSymbol(e, p) ==
        IF e = 0 THEN NoMatch ELSE Match(i, p + 1, << SubSeq(s, i, e - 1), <<s[p]>> >>)
      Decimal(e, p) ==
        IF e = 0 THEN NoMatch
        ELSE IF p <= Len(s) /\ s[p] \in SymbolCharsI
        THEN Match(i, p + 1, << SubSeq(s, i, e - 1), <<s[p]>> >>)
        ELSE Match(i, p, << SubSeq(s, i, e - 1), <<>> >>)
      Whole(e) == IF e = 0 THEN NoMatch ELSE Match(i, e, << SubSeq(s, i, e - 1) >>)
      Bounded(e) == IF e = 0 \/ ~WordBoundary(s, e) THEN NoMatch ELSE Whole(e)
      bounds == {e \in 1..(Len(s) + 1) : WordBoundary(s, e)}
      symbols == {e \in 1..(Len(s) + 1) : IsSymbolAt(s, SkipSpaces(s, e))}
  IN
  CASE k = 1 ->
         IF s[i] \in SymbolCharsI /\ IsDigitAt(s, SkipSpaces(s, i + 1))
         THEN Symbol(i, SkipSpaces(s, i + 1))
         ELSE NoMatch
    [] k = 2 ->
         Labelled(FirstWith(<<1, 2, 3, 4, 5, 6, 7, 8, 9>>,
                            {l \in 1..9 : AfterLabel(LabelEnd(l)) # NoMatch}))
    [] k = 3 ->
         IF IsDigitAt(s, i)
         THEN BeforeSymbol(FirstWith(NumEnds(s, i, 1, 3), symbols),
                           SkipSpaces(s, FirstWith(NumEnds(s, i, 1, 3), symbols)))
         ELSE NoMatch
    [] k = 4 -> Decimal(DecimalEnd, SkipSpaces(s, DecimalEnd))
    [] k = 5 ->
         IF WordBoundary(s, i) /\ IsDigitAt(s, i)
         THEN Whole(FirstWith(NumEnds(s, i, 2, 4), bounds))
         ELSE NoMatch
    [] k = 6 -> IF WordBoundary(s, i) THEN Bounded(DecimalEnd) ELSE NoMatch
    [] k = 7 ->
         IF WordBoundary(s, i) /\ IsDigitAt(s, i)
         THEN Whole(FirstWith(NumEnds(s, i, 1, 3), bounds))
         ELSE NoMatch

\* Array.from(text.matchAll(pattern)) given the match at each position (NoMatch
\* where there is none): the leftmost match, then the leftmost one that starts
\* where the previous match ended or later, and so on
RECURSIVE MatchesFrom(_, _)
MatchesFrom(at, i) ==
  LET Rest(m) == <<m>> \o MatchesFrom(at, IF m.end > m.index THEN m.end ELSE m.index + 1)
      Leftmost(starts) == IF starts = {} THEN <<>> ELSE Rest(at[Min(starts)])
  IN Leftmost({j \in i..Len(at) : at[j] # NoMatch})

(***************************************************************************)
(* extractAmount                                                           *)
(***************************************************************************)
\* base confidence of each pattern, in hundredths
AmountBase == <<98, 95, 90, 85, 70, 60, 40>>

\* lines 195-224: neither pattern.source.includes(...) test holds for any of
\* the seven patterns, so every match takes the last branch
\* (first is match[1] || match[2] || ''; CurrencySymbols the entries of
\* CURRENCY_SYMBOLS a text here can hold; class the class
\* [${CURRENCY_SYMBOLS.join('')}] under the i flag; run the first run of class
\* characters, which amountStr.replace(currency, '') removes once)
AmountAndCurrency(m) ==
  LET CurrencySymbols ==
        { <<"$">>, <<"B", "s">>, <<"U", "S", "D">>, <<"E", "U", "R">>, <<"G", "B", "P">>,
          <<"J", "P", "Y">>, <<"I", "N", "R">>, <<"B", "O", "B">> }
      class == {"$"} \cup {c \in Letter : toUpperChar(c) \in
                 {"B", "S", "U", "D", "E", "R", "G", "P", "J", "Y", "I", "N", "O"}}
      Removed(first, run, i) ==
        SubSeq(first, 1, i - 1) \o SubSeq(first, i + Len(run), Len(first))
      Split(first, run) ==
        IF (\E sym \in CurrencySymbols : includes(first, sym)) /\ run # <<>>
        THEN [amountStr |->
                trim(trim(Removed(first, run,
                                  Min({j \in 1..Len(first) : OccursAt(first, run, j)})))),
              currency |-> trim(run)]
        ELSE [amountStr |-> trim(first), currency |-> trim(first)]
      Run(first, at) ==
        IF at = {} THEN <<>> ELSE SubSeq(first, Min(at), RunEnd(first, Min(at), class))
      First(first) == Split(first, Run(first, {i \in 1..Len(first) : first[i] \in class}))
  IN First(IF m.groups[1] # <<>> THEN m.groups[1]
           ELSE IF Len(m.groups) >= 2 THEN m.groups[2] ELSE <<>>)

\* the number of characters of context looked at on each side
ContextLength == 20

\* lines 243-250
InTotalContext(text, index) ==
  LET contextBefore == toLowerCase(Sub(text, index - ContextLength, index - 1))
      contextAfter == toLowerCase(Sub(text, index, index + ContextLength - 1))
      total == <<"t", "o", "t", "a", "l">>
      suma == <<"s", "u", "m", "a">>
  IN \/ includes(contextBefore, total) \/ includes(contextBefore, suma)
     \/ includes(contextAfter, total) \/ includes(contextAfter, suma)

\* lines 229-250: the confidence of a candidate before the final Math.min
AdjustedConfidence(base, currency, amount, inContext) ==
  LET Plus(cond, c, d) == IF cond THEN FAdd(c, Lit(d)) ELSE c
      Minus(cond, c, d) == IF cond THEN FSub(c, Lit(d)) ELSE c
      c1 == IF currency # <<>> THEN MinOne(FAdd(Lit(base), Lit(5))) ELSE Lit(base)
      c2 == Plus(amount > 5000, c1, 2)
      c3 == Plus(amount > 10000, c2, 3)
      c4 == Plus(amount > 100000, c3, 2)
      c5 == Minus(amount < 100, c4, 20)
      c6 == Minus(amount < 10, c5, 30)
  IN Plus(inContext, c6, 10)

USD == <<"U", "S", "D">>

\* AmountCandidate without the test normalizedAmount > 0 of line 228: the
\* properties of extractAmount must tell the two apart
AmountCandidateAnyValue(k, text, m) ==
  LET Candidate(ac, normalizedAmount) ==
        IF IsNull(normalizedAmount) THEN <<>>
        ELSE << [amount |-> Val(normalizedAmount),
                 currency |-> IF ac.currency # <<>> THEN ac.currency ELSE USD,
                 confidence |-> MinOne(AdjustedConfidence(AmountBase[k], ac.currency,
                                         Val(normalizedAmount),
                                         InTotalContext(text, m.index))),
                 position |-> m.index - 1,
                 pattern |-> k] >>
      Normalized(ac) == Candidate(ac, normalizeAmount(ac.amountStr))
  IN Normalized(AmountAndCurrency(m))

\* the candidate one match of pattern k yields: a sequence of length 0 or 1
AmountCandidate(k, text, m) ==
  LET Candidate(ac, normalizedAmount) ==
        IF IsNull(normalizedAmount) \/ Val(normalizedAmount) <= 0 THEN <<>>
        ELSE << [amount |-> Val(normalizedAmount),
                 currency |-> IF ac.currency # <<>> THEN ac.currency ELSE USD,
                 confidence |-> MinOne(AdjustedConfidence(AmountBase[k], ac.currency,
                                         Val(normalizedAmount),
                                         InTotalContext(text, m.index))),
                 position |-> m.index - 1,
                 pattern |-> k] >>
      Normalized(ac) == Candidate(ac, normalizeAmount(ac.amountStr))
  IN Normalized(AmountAndCurrency(m))

RECURSIVE CandidatesOf(_, _, _)
CandidatesOf(k, text, ms) ==
  IF ms = <<>> THEN <<>>
  ELSE AmountCandidate(k, text, Head(ms)) \o CandidatesOf(k, text, Tail(ms))

\* AmountMatchAll with a pattern whose lastIndex moves on with every call made,
\* as it does when a global pattern is run with exec or test: two calls on
\* the same text must tell the two apart
AmountMatchAllMoving(k, text) ==
  MatchesFrom([i \in 1..Len(text) |-> AmountMatchAt(k, text, i)],
              lastIndex.AMOUNT_PATTERNS[k] + 1 + Len(history))

\* Array.from(text.matchAll(patternConfig.pattern)) (line 192): matchAll works
\* on a copy of the pattern that starts at the lastIndex of the pattern, and
\* leaves the pattern as it was
AmountMatchAll(k, text) ==
  MatchesFrom([i \in 1..Len(text) |-> AmountMatchAt(k, text, i)],
              lastIndex.AMOUNT_PATTERNS[k] + 1)

RECURSIVE AmountCandidatesFrom(_, _)
AmountCandidatesFrom(k, text) ==
  IF k > Len(AmountBase) THEN <<>>
  ELSE CandidatesOf(k, text, AmountMatchAll(k, text))
       \o AmountCandidatesFrom(k + 1, text)

\* the pool of candidates, in the order they are pushed
AmountCandidates(text) == AmountCandidatesFrom(1, text)

\* the comparator of lines 268-273 returns a negative number; abs is
\* Math.abs(a.confidence - b.confidence)
CompareNegative(a, b) ==
  LET Abs(diff) == IF FLess(diff, <<0, 0>>) THEN <<0 - diff[1], 0 - diff[2]>> ELSE diff
  IN IF FLess(Abs(FSub(a.confidence, b.confidence)), Lit(5)) THEN b.amount < a.amount
     ELSE FLess(b.confidence, a.confidence)

\* Array.prototype.sort for fewer than 64 elements (V8): the leading run is
\* found (and reversed when strictly descending), the rest is inserted by
\* binary search
RECURSIVE RunLength(_, _, _)
RunLength(a, idx, descending) ==
  IF idx > Len(a) THEN idx - 1
  ELSE IF descending = CompareNegative(a[idx], a[idx - 1])
       THEN RunLength(a, idx + 1, descending)
       ELSE idx - 1

RECURSIVE InsertionPoint(_, _, _, _)
InsertionPoint(a, pivot, left, right) ==
  LET Halve(mid) ==
        IF CompareNegative(pivot, a[mid])
        THEN InsertionPoint(a, pivot, left, mid)
        ELSE InsertionPoint(a, pivot, mid + 1, right)
  IN IF left >= right THEN left ELSE Halve(left + ((right - left) \div 2))

RECURSIVE BinaryInsertionSort(_, _)
BinaryInsertionSort(a, start) ==
  LET Moved(left) ==
        SubSeq(a, 1, left - 1) \o <<a[start]>> \o SubSeq(a, left, start - 1)
        \o SubSeq(a, start + 1, Len(a))
  IN IF start > Len(a) THEN a
     ELSE BinaryInsertionSort(Moved(InsertionPoint(a, a[start], 1, start)), start + 1)

sort(a) ==
  LET Made(descending, run) ==
        BinaryInsertionSort(IF descending
                            THEN [i \in 1..run |-> a[run + 1 - i]] \o SubSeq(a, run + 1, Len(a))
                            ELSE a,
                            run + 1)
      Run(descending) == Made(descending, RunLength(a, 3, descending))
  IN IF Len(a) < 2 THEN a ELSE Run(CompareNegative(a[2], a[1]))

extractAmount(text) ==
  LET Best(bestMatch) ==
        [amount |-> Some(bestMatch.amount),
         currency |-> Some(bestMatch.currency),
         confidence |-> bestMatch.confidence]
      Of(candidates) ==
        IF candidates = <<>>
        THEN [amount |-> Null, currency |-> Null, confidence |-> Lit(0)]
        ELSE Best(sort(candidates)[1])
  IN Of(AmountCandidates(text))

(***************************************************************************)
(* DATE_PATTERNS and extractDate                                           *)
(***************************************************************************)
MONTH_NAMES_es ==
  << <<"e", "n", "e", "r", "o">>, <<"f", "e", "b", "r", "e", "r", "o">>,
     <<"m", "a", "r", "z", "o">>, <<"a", "b", "r", "i", "l">>, <<"m", "a", "y", "o">>,
     <<"j", "u", "n", "i", "o">>, <<"j", "u", "l", "i", "o">>,
     <<"a", "g", "o", "s", "t", "o">>,
     <<"s", "e", "p", "t", "i", "e", "m", "b", "r", "e">>,
     <<"o", "c", "t", "u", "b", "r", "e">>,
     <<"n", "o", "v", "i", "e", "m", "b", "r", "e">>,
     <<"d", "i", "c", "i", "e", "m", "b", "r", "e">> >>

MONTH_NAMES_en ==
  << <<"j", "a", "n", "u", "a", "r", "y">>, <<"f", "e", "b", "r", "u", "a", "r", "y">>,
     <<"m", "a", "r", "c", "h">>, <<"a", "p", "r", "i", "l">>, <<"m", "a", "y">>,
     <<"j", "u", "n", "e">>, <<"j", "u", "l", "y">>, <<"a", "u", "g", "u", "s", "t">>,
     <<"s", "e", "p", "t", "e", "m", "b", "e", "r">>,
     <<"o", "c", "t", "o", "b", "e", "r">>,
     <<"n", "o", "v", "e", "m", "b", "e", "r">>,
     <<"d", "e", "c", "e", "m", "b", "e", "r">> >>

\* [\/\-] at p
IsDateSepAt(s, p) == p >= 1 /\ p <= Len(s) /\ s[p] \in {"/", "-"}

\* the number of digits \d{1,2} takes at p when what follows must be at one of
\* the positions of after: 0 when none does
OneOrTwoDigits(s, p, after) ==
  IF IsDigitAt(s, p) /\ IsDigitAt(s, p + 1) /\ p + 2 \in after THEN 2
  ELSE IF IsDigitAt(s, p) /\ p + 1 \in after THEN 1
  ELSE 0

\* pattern k of DATE_PATTERNS matched at position i exactly
DateMatchAt(k, s, i) ==
  LET FourDigits(p) ==
        IsDigitAt(s, p) /\ IsDigitAt(s, p + 1) /\ IsDigitAt(s, p + 2) /\ IsDigitAt(s, p + 3)
      \* the alternatives of the month group of the third pattern, in order
      MonthAlternatives == MONTH_NAMES_es \o MONTH_NAMES_en
      sep == {p \in 1..Len(s) : IsDateSepAt(s, p)}
      bound == {p \in 1..(Len(s) + 1) : WordBoundary(s, p)}
      space == {p \in 1..Len(s) : s[p] \in Space}
      \* d1 and d2 digits, then four of them from y
      DayFirst(d1, j, d2, y) ==
        IF WordBoundary(s, i) /\ d1 > 0 /\ d2 > 0 /\ FourDigits(y)
           /\ WordBoundary(s, y + 4)
        THEN Match(i, y + 4, << SubSeq(s, i, i + d1 - 1), SubSeq(s, j, j + d2 - 1),
                                SubSeq(s, y, y + 3) >>)
        ELSE NoMatch
      DaySecond(d1, j, d2) == DayFirst(d1, j, d2, j + d2 + 1)
      DayThen(d1, j) == DaySecond(d1, j, OneOrTwoDigits(s, j, sep))
      Day(d1) == DayThen(d1, i + d1 + 1)
      \* four digits, then d2 of them from m and d3 of them from d
      YearFirst(m, d2, d, d3) ==
        IF WordBoundary(s, i) /\ FourDigits(i) /\ IsDateSepAt(s, i + 4)
           /\ d2 > 0 /\ d3 > 0
        THEN Match(i, d + d3, << SubSeq(s, i, i + 3), SubSeq(s, m, m + d2 - 1),
                                 SubSeq(s, d, d + d3 - 1) >>)
        ELSE NoMatch
      YearSecond(m, d2, d) == YearFirst(m, d2, d, OneOrTwoDigits(s, d, bound))
      Year(m, d2) == YearSecond(m, d2, m + d2 + 1)
      \* d1 digits, the month name from n to e, four digits from y
      YearAfter(e, y) == y > e /\ FourDigits(y) /\ WordBoundary(s, y + 4)
      Rest(n, name) ==
        OccursAtI(s, name, n) /\ YearAfter(n + Len(name), SkipSpaces(s, n + Len(name)))
      NamedYear(d1, n, e, y) ==
        Match(i, y + 4, << SubSeq(s, i, i + d1 - 1), SubSeq(s, n, e - 1),
                           SubSeq(s, y, y + 3) >>)
      Named(d1, n, e) == NamedYear(d1, n, e, SkipSpaces(s, e))
      Month(d1, n, a) ==
        IF a = 0 THEN NoMatch ELSE Named(d1, n, n + Len(MonthAlternatives[a]))
      Name(d1, n) ==
        Month(d1, n,
              IF WordBoundary(s, i) /\ d1 > 0
              THEN FirstWith([x \in 1..24 |-> x],
                             {x \in 1..24 : Rest(n, MonthAlternatives[x])})
              ELSE 0)
      Digits(d1) == Name(d1, SkipSpaces(s, i + d1))
  IN
  CASE k = 1 -> Day(OneOrTwoDigits(s, i, sep))
    [] k = 2 -> Year(i + 5, OneOrTwoDigits(s, i + 5, sep))
    [] k = 3 -> Digits(OneOrTwoDigits(s, i, space))

\* Array.from(text.matchAll(pattern)) (line 287), from the lastIndex of the
\* pattern
DateMatchAll(k, s) ==
  MatchesFrom([i \in 1..Len(s) |-> DateMatchAt(k, s, i)], lastIndex.DATE_PATTERNS[k] + 1)

findMonthIndex(monthName) ==
  LET In(names, lowerMonth) == {x \in 1..12 : toLowerCase(names[x]) = lowerMonth}
      First(es, en) ==
        IF es # {} THEN Min(es) - 1
        ELSE IF en # {} THEN Min(en) - 1
        ELSE 0 - 1
  IN First(In(MONTH_NAMES_es, toLowerCase(monthName)),
           In(MONTH_NAMES_en, toLowerCase(monthName)))

\* isValidDate without the comparison against the calendar (lines 622-625): the
\* properties of extractDate must tell the two apart
isValidDateAnyDay(year, month, day) ==
  /\ ~IsNull(year) /\ ~IsNull(month) /\ ~IsNull(day)
  /\ Val(year) >= 1900 /\ Val(year) <= 2100
  /\ Val(month) >= 1 /\ Val(month) <= 12
  /\ Val(day) >= 1 /\ Val(day) <= 31

\* year, month and day are numbers or NaN (null): every comparison with NaN is false
isValidDate(year, month, day) ==
  LET DaysInMonth(y, m) ==
        IF m = 2 THEN (IF (y % 4 = 0 /\ y % 100 # 0) \/ y % 400 = 0 THEN 29 ELSE 28)
        ELSE IF m \in {4, 6, 9, 11} THEN 30 ELSE 31
      \* new Date(year, month - 1, day) for month in 1..12 and day in 1..31, as
      \* <<getFullYear(), getMonth() + 1, getDate()>>: a day past the end of the
      \* month runs over into the next month
      NewDate(y, m, d) ==
        IF d <= DaysInMonth(y, m) THEN <<y, m, d>>
        ELSE <<y, m + 1, d - DaysInMonth(y, m)>>
  IN
  IF ~IsNull(year) /\ (Val(year) < 1900 \/ Val(year) > 2100) THEN FALSE
  ELSE IF ~IsNull(month) /\ (Val(month) < 1 \/ Val(month) > 12) THEN FALSE
  ELSE IF ~IsNull(day) /\ (Val(day) < 1 \/ Val(day) > 31) THEN FALSE
  ELSE IF IsNull(year) \/ IsNull(month) \/ IsNull(day) THEN FALSE
  ELSE NewDate(Val(year), Val(month), Val(day)) = <<Val(year), Val(month), Val(day)>>

\* lines 291-335: <<year, month, day>> of a match, or <<>> for `continue`
DateParts(k, m) ==
  LET \* pattern.source.includes('\\d{4}'): the source of each of the three
      \* patterns contains \d{4}
      SourceIncludesFourDigits == k \in {1, 2, 3}
      \* pattern.source.includes('enero|febrero')
      SourceIncludesMonths == k = 3
      Named(monthIndex) ==
        IF monthIndex # 0 - 1
        THEN <<parseInt(m.groups[3]), Some(monthIndex + 1), parseInt(m.groups[1])>>
        ELSE <<>>
      Ordered(first, second, third) ==
        IF Val(first) > 12 THEN <<third, second, first>>
        ELSE <<third, first, second>>
  IN
  IF SourceIncludesFourDigits
  THEN <<parseInt(m.groups[1]), parseInt(m.groups[2]), parseInt(m.groups[3])>>
  ELSE IF SourceIncludesMonths
  THEN Named(findMonthIndex(toLowerCase(m.groups[2])))
  ELSE Ordered(parseInt(m.groups[1]), parseInt(m.groups[2]), parseInt(m.groups[3]))

isoDate(year, month, day) ==
  toDigits(year) \o <<"-">> \o padStart2(toDigits(month)) \o <<"-">>
  \o padStart2(toDigits(day))

\* the result of the first match in ms that gives a valid date, <<>> if none
RECURSIVE FirstValidDate(_, _)
FirstValidDate(k, ms) ==
  LET Valid(p) ==
        IF p # <<>> /\ isValidDate(p[1], p[2], p[3])
        THEN << [date |-> Some(isoDate(Val(p[1]), Val(p[2]), Val(p[3]))),
                 confidence |-> Lit(90)] >>
        ELSE FirstValidDate(k, Tail(ms))
  IN IF ms = <<>> THEN <<>> ELSE Valid(DateParts(k, Head(ms)))

RECURSIVE ExtractDateFrom(_, _)
ExtractDateFrom(k, text) ==
  LET Found(found) == IF found # <<>> THEN found[1] ELSE ExtractDateFrom(k + 1, text)
  IN IF k > 3 THEN [date |-> Null, confidence |-> Lit(0)]
     ELSE Found(FirstValidDate(k, DateMatchAll(k, text)))

extractDate(text) == ExtractDateFrom(1, text)

(***************************************************************************)
(* extractProvider                                                         *)
(***************************************************************************)
\* [a-zA-Z\s&]
NameChar == Letter \cup Space \cup {"&"}

\* the positions from hi down to lo, in that order
Downto(hi, lo) == [x \in 1..(IF hi >= lo THEN hi - lo + 1 ELSE 0) |-> hi + 1 - x]

\* one of words occurs at p, letter case ignored
AnyOccursAtI(s, words, p) == \E a \in 1..Len(words) : OccursAtI(s, words[a], p)

\* \b([A-Z][a-zA-Z\s&]{lo,hi})\s*(?:words) under the i flag, at i
NameBeforeWord(s, i, lo, hi, words) ==
  LET before == {p \in 1..(Len(s) + 1) : AnyOccursAtI(s, words, SkipSpaces(s, p))}
      Word(p, q, a) == Match(i, q + Len(words[a]), << SubSeq(s, i, p - 1) >>)
      After(p, q) == Word(p, q, Min({a \in 1..Len(words) : OccursAtI(s, words[a], q)}))
      Name(p) == IF p = 0 THEN NoMatch ELSE After(p, SkipSpaces(s, p))
      Longest(run) ==
        Name(IF WordBoundary(s, i) /\ s[i] \in Letter
             THEN FirstWith(Downto(i + 1 + Min({run, hi}), i + 1 + lo), before)
             ELSE 0)
  IN Longest(RunEnd(s, i + 1, NameChar) - i)

\* the end of [A-Z][a-z]+ at p (the position after it), 0 when it does not match
CapitalizedWordEnd(s, p) ==
  IF p >= 1 /\ p + 1 <= Len(s) /\ s[p] \in Upper /\ s[p + 1] \in Lower
  THEN RunEnd(s, p + 1, Lower) + 1 ELSE 0

\* the ends of the words of a chain [A-Z][a-z]+(?:\s+[A-Z][a-z]+)* from the word
\* that ends at e, at most n more words
RECURSIVE WordChain(_, _, _)
WordChain(s, e, n) ==
  LET Word(q, w) ==
        IF n = 0 \/ q = e \/ w = 0 THEN <<>> ELSE <<w>> \o WordChain(s, w, n - 1)
      At(q) == Word(q, CapitalizedWordEnd(s, q))
  IN At(SkipSpaces(s, e))

\* pattern k of providerPatterns matched at position i exactly
ProviderMatchAt(k, s, i) ==
  LET \* the business suffixes of the first pattern a text here can hold, in order
      BusinessSuffixes ==
        << <<"S", "t", "o", "r", "e">>, <<"S", "h", "o", "p">>,
           <<"T", "i", "e", "n", "d", "a">>, <<"E", "m", "p", "r", "e", "s", "a">>,
           <<"C", "o", "m", "p", "a", "n", "y">>, <<"C", "o", "r", "p">>, <<"I", "n", "c">>,
           <<"L", "t", "d">>, <<"S", ".", "A", ".">>, <<"S", ".", "L", ".">>,
           <<"R", "e", "s", "t", "a", "u", "r", "a", "n", "t">>,
           <<"S", "u", "p", "e", "r", "m", "e", "r", "c", "a", "d", "o">>,
           <<"F", "a", "r", "m", "a", "c", "i", "a">> >>
      \* the labels of the second pattern a text here can hold: <<first word,
      \* second word after \s*>>
      ProviderLabels ==
        << << <<"b", "u", "s", "i", "n", "e", "s", "s">>, <<"n", "a", "m", "e">> >>,
           << <<"c", "o", "m", "p", "a", "n", "y">>, <<>> >>,
           << <<"p", "r", "o", "v", "e", "e", "d", "o", "r">>, <<>> >>,
           << <<"v", "e", "n", "d", "o", "r">>, <<>> >> >>
      ReceiptWords ==
        << <<"r", "e", "c", "e", "i", "p", "t">>, <<"f", "a", "c", "t", "u", "r", "a">>,
           <<"t", "i", "c", "k", "e", "t">>, <<"r", "e", "c", "i", "b", "o">>,
           <<"c", "o", "m", "p", "r", "o", "b", "a", "n", "t", "e">> >>
      AddressWords ==
        << <<"A", "v", ".">>, <<"C", "a", "l", "l", "e">>, <<"S", "t", "r", "e", "e", "t">>,
           <<"A", "v", "e", "n", "u", "e">>, <<"R", "o", "a", "d">> >>
      \* the first pattern: the name runs to the last suffix the run allows
      SuffixAt(p, a) ==
        OccursAt(s, BusinessSuffixes[a], p) /\ WordBoundary(s, p + Len(BusinessSuffixes[a]))
      suffixes ==
        {p \in 1..(Len(s) + 1) : \E a \in 1..Len(BusinessSuffixes) : SuffixAt(p, a)}
      Suffixed(e) == Match(i, e, << SubSeq(s, i, e - 1) >>)
      Business(p) ==
        IF p = 0 THEN NoMatch
        ELSE Suffixed(p + Len(BusinessSuffixes[
                        Min({a \in 1..Len(BusinessSuffixes) : SuffixAt(p, a)})]))
      \* the second pattern: a label, an optional colon, the name
      LabelWords(w1, w2, m) ==
        IF ~OccursAtI(s, w1, i) THEN 0
        ELSE IF w2 = <<>> THEN i + Len(w1)
        ELSE IF OccursAtI(s, w2, m) THEN m + Len(w2) ELSE 0
      LabelEnd(a) ==
        LabelWords(ProviderLabels[a][1], ProviderLabels[a][2],
                   SkipSpaces(s, i + Len(ProviderLabels[a][1])))
      Colon(p1) == IF p1 <= Len(s) /\ s[p1] = ":" THEN SkipSpaces(s, p1 + 1) ELSE p1
      Start(e) == Colon(SkipSpaces(s, e))
      Starts(g) == g <= Len(s) /\ s[g] \in Letter /\ RunEnd(s, g + 1, NameChar) - g >= 3
      Ends(e) == e # 0 /\ Starts(Start(e))
      Run(g, run) == Match(i, g + 1 + Min({run, 40}), << SubSeq(s, g, g + Min({run, 40})) >>)
      Name(g) == Run(g, RunEnd(s, g + 1, NameChar) - g)
      Labelled(a) == IF a = 0 THEN NoMatch ELSE Name(Start(LabelEnd(a)))
      \* the fourth pattern: capitalized words, as many as end at a word boundary
      Words(chain, n) ==
        IF n = 0 THEN NoMatch ELSE Match(i, chain[n], << SubSeq(s, i, chain[n] - 1) >>)
      Chain(w1, chain) ==
        Words(chain,
              IF WordBoundary(s, i) /\ w1 # 0
              THEN FirstWith(Downto(Len(chain), 1),
                             {x \in 1..Len(chain) : WordBoundary(s, chain[x])})
              ELSE 0)
      First(w1) == Chain(w1, WordChain(s, w1, 4))
  IN
  CASE k = 1 ->
         Business(IF WordBoundary(s, i) /\ s[i] \in Upper
                  THEN FirstWith(Downto(RunEnd(s, i + 1, NameChar) + 1, i + 2), suffixes)
                  ELSE 0)
    [] k = 2 ->
         Labelled(FirstWith([x \in 1..Len(ProviderLabels) |-> x],
                            {x \in 1..Len(ProviderLabels) : Ends(LabelEnd(x))}))
    [] k = 3 -> NameBeforeWord(s, i, 3, 30, ReceiptWords)
    [] k = 4 -> First(CapitalizedWordEnd(s, i))
    [] k = 5 -> NameBeforeWord(s, i, 4, 25, AddressWords)

ProviderMatchAll(k, s) == MatchesFrom([i \in 1..Len(s) |-> ProviderMatchAt(k, s, i)], 1)

\* the confidence of each of the five patterns, in hundredths, in array order
ProviderConfidence == <<90, 85, 80, 60, 70>>

ProviderSkipWords ==
  { <<"T", "O", "T", "A", "L">>, <<"S", "U", "B", "T", "O", "T", "A", "L">>,
    <<"I", "V", "A">>, <<"D", "E", "S", "C", "U", "E", "N", "T", "O">>,
    <<"P", "A", "G", "O">>, <<"F", "E", "C", "H", "A">>, <<"H", "O", "R", "A">>,
    <<"C", "A", "N", "T", "I", "D", "A", "D">>, <<"P", "R", "E", "C", "I", "O">>,
    <<"I", "T", "E", "M">> }

\* lines 387-400: the cleaned provider name of a match, <<>> when it is skipped
ProviderOf(m) ==
  LET Clean(provider) ==
        IF Len(provider) < 3 \/ Len(provider) > 50 THEN <<>>
        ELSE IF \E word \in ProviderSkipWords : includes(toUpperCase(provider), word)
        THEN <<>>
        ELSE IF (\E x \in 1..Len(provider) : provider[x] \in Digit) /\ Len(provider) < 8
        THEN <<>>
        ELSE <<provider>>
  IN Clean(trim(collapseSpaces(trim(m.groups[1]))))

\* the names that survive the skips, with their confidence, in the order seen
RECURSIVE ProviderSurvivorsOf(_, _)
ProviderSurvivorsOf(k, ms) ==
  LET Kept(p) ==
        IF p = <<>> THEN <<>>
        ELSE << [provider |-> p[1], confidence |-> Lit(ProviderConfidence[k])] >>
  IN IF ms = <<>> THEN <<>>
     ELSE Kept(ProviderOf(Head(ms))) \o ProviderSurvivorsOf(k, Tail(ms))

RECURSIVE ProviderSurvivorsFrom(_, _)
ProviderSurvivorsFrom(k, text) ==
  IF k > Len(ProviderConfidence) THEN <<>>
  ELSE ProviderSurvivorsOf(k, ProviderMatchAll(k, text))
       \o ProviderSurvivorsFrom(k + 1, text)

\* BestOf where a later survivor replaces the best with an equal confidence
\* too
RECURSIVE BestOfLast(_, _)
BestOfLast(best, rest) ==
  IF rest = <<>> THEN best
  ELSE IF FLeq(best.confidence, Head(rest).confidence)
       THEN BestOfLast(Head(rest), Tail(rest))
  ELSE BestOfLast(best, Tail(rest))

\* the running best of lines 402-404 over the survivors: a later one replaces
\* the best only with a strictly higher confidence
RECURSIVE BestOf(_, _)
BestOf(best, rest) ==
  IF rest = <<>> THEN best
  ELSE IF FLess(best.confidence, Head(rest).confidence) THEN BestOf(Head(rest), Tail(rest))
  ELSE BestOf(best, Tail(rest))

\* extractProvider where a later survivor of equal confidence replaces the
\* best: the properties of extractProvider must tell the two apart
extractProviderLastSeen(text) ==
  LET Best(bestMatch) ==
        IF bestMatch.confidence = Lit(0)
        THEN [provider |-> Null, confidence |-> Lit(0)]
        ELSE [provider |-> Some(bestMatch.provider), confidence |-> bestMatch.confidence]
  IN Best(BestOfLast([provider |-> <<>>, confidence |-> Lit(0)],
                     ProviderSurvivorsFrom(1, text)))

extractProvider(text) ==
  LET Best(bestMatch) ==
        IF bestMatch.confidence = Lit(0)
        THEN [provider |-> Null, confidence |-> Lit(0)]
        ELSE [provider |-> Some(bestMatch.provider), confidence |-> bestMatch.confidence]
  IN Best(BestOf([provider |-> <<>>, confidence |-> Lit(0)],
                 ProviderSurvivorsFrom(1, text)))

(***************************************************************************)
(* extractDescription                                                      *)
(***************************************************************************)
\* [A-Za-z0-9\s\-,.]
ItemChar == Letter \cup Digit \cup Space \cup {"-", ",", "."}

\* pattern k of descriptionPatterns matched at position i exactly
DescriptionMatchAt(k, s, i) ==
  LET
      \* [A-Za-z0-9\s\-,.()]
      ConceptChar == ItemChar \cup {"(", ")"}
      \* the labels of the first pattern a text here can hold, in order
      DescriptionLabels ==
        << <<"c", "o", "n", "c", "e", "p", "t", "o">>,
           <<"d", "e", "s", "c", "r", "i", "p", "t", "i", "o", "n">>,
           <<"i", "t", "e", "m">>, <<"p", "r", "o", "d", "u", "c", "t", "o">>,
           <<"s", "e", "r", "v", "i", "c", "i", "o">> >>
      \* the first pattern: the group starts no earlier than base (after the
      \* colon if there is one, else after the label), and \s* gives back white
      \* space until the group has 5 characters
      Group(base, g, end) ==
        IF g < base THEN NoMatch ELSE Match(i, end, << SubSeq(s, g, end - 1) >>)
      Bounded(base, e, g) == Group(base, g, IF e < g + 60 THEN e + 1 ELSE g + 60)
      Concept(base, e) == Bounded(base, e, Min({SkipSpaces(s, base), e - 4}))
      Base(base) == Concept(base, RunEnd(s, base, ConceptChar))
      Colon(labelEnd, c) == Base(IF c <= Len(s) /\ s[c] = ":" THEN c + 1 ELSE labelEnd)
      LabelAt(labelEnd) == Colon(labelEnd, SkipSpaces(s, labelEnd))
      Label(a) == IF a = 0 THEN NoMatch ELSE LabelAt(i + Len(DescriptionLabels[a]))
      \* the second pattern: a quantity, the item, a number and a symbol
      NumberAt(p, q) == q > p /\ q <= Len(s) /\ s[q] \in Digit \cup Separator
      numbers == {p \in 1..(Len(s) + 1) : NumberAt(p, SkipSpaces(s, p))}
      Price(t) == IF t <= Len(s) /\ s[t] \in SymbolCharsI THEN t + 1 ELSE t
      Item(d, g, p) ==
        IF p = 0 THEN NoMatch
        ELSE Match(i,
                   Price(SkipSpaces(s, RunEnd(s, SkipSpaces(s, p), Digit \cup Separator) + 1)),
                   << SubSeq(s, i, d), SubSeq(s, g, p - 1) >>)
      Named(d, g, run) ==
        Item(d, g,
             IF WordBoundary(s, i) /\ d >= i /\ g > d + 1 /\ g <= Len(s) /\ s[g] \in Letter
             THEN FirstWith(Downto(g + 1 + Min({run, 40}), g + 6), numbers)
             ELSE 0)
      Gap(d, g) == Named(d, g, RunEnd(s, g + 1, ItemChar) - g)
      Quantity(d) == Gap(d, SkipSpaces(s, d + 1))
      \* the third pattern: a phrase that ends at a word boundary
      bounds == {p \in 1..(Len(s) + 1) : WordBoundary(s, p)}
      Phrase(p) == IF p = 0 THEN NoMatch ELSE Match(i, p, << SubSeq(s, i, p - 1) >>)
      Longest(run) ==
        Phrase(IF WordBoundary(s, i) /\ s[i] \in Letter
               THEN FirstWith(Downto(i + 1 + Min({run, 50}), i + 9), bounds)
               ELSE 0)
  IN
  CASE k = 1 ->
         Label(FirstWith([x \in 1..Len(DescriptionLabels) |-> x],
                         {x \in 1..Len(DescriptionLabels) :
                            OccursAtI(s, DescriptionLabels[x], i)}))
    [] k = 2 -> Quantity(RunEnd(s, i, Digit))
    [] k = 3 -> Longest(RunEnd(s, i + 1, ItemChar) - i)

DescriptionMatchAll(k, s) == MatchesFrom([i \in 1..Len(s) |-> DescriptionMatchAt(k, s, i)], 1)

\* the confidence of each of the three patterns, in hundredths
DescriptionConfidence == <<90, 80, 60>>

Compra == <<"c", "o", "m", "p", "r", "a">>

\* lines 438-462: the description a match yields with its confidence, <<>> when
\* the match is skipped; provider is the nullable argument
DescriptionOf(k, m, provider) ==
  LET DescriptionSkipWords == ProviderSkipWords \ { <<"I", "T", "E", "M">> }
      PurchaseWords ==
        { Compra, <<"p", "u", "r", "c", "h", "a", "s", "e">>,
          <<"p", "r", "o", "d", "u", "c", "t", "o">>,
          <<"s", "e", "r", "v", "i", "c", "i", "o">> }
      \* /^[A-Z][a-z]+(?:\s+[A-Z][a-z]+){1,3}$/.test(d)
      Words(d, w1, chain) == w1 # 0 /\ \E x \in 1..Len(chain) : chain[x] = Len(d) + 1
      FirstWord(d, w1) == Words(d, w1, WordChain(d, w1, 3))
      LooksLikeName(d) == FirstWord(d, CapitalizedWordEnd(d, 1))
      Kept(raw, description, lower) ==
        IF Len(raw) < 5 \/ Len(raw) > 100 THEN <<>>
        ELSE IF LooksLikeName(description) /\ ~includes(lower, Compra) THEN <<>>
        ELSE IF \E word \in DescriptionSkipWords : includes(toUpperCase(description), word)
        THEN <<>>
        ELSE IF ~IsNull(provider) /\ Val(provider) # <<>>
                /\ includes(lower, toLowerCase(Val(provider)))
        THEN <<>>
        ELSE << [description |-> description,
                 confidence |-> IF \E word \in PurchaseWords : includes(lower, word)
                                THEN FAdd(Lit(DescriptionConfidence[k]), Lit(10))
                                ELSE Lit(DescriptionConfidence[k])] >>
      Cleaned(raw, description) == Kept(raw, description, toLowerCase(description))
      Raw(raw) == Cleaned(raw, trim(collapseSpaces(raw)))
  IN Raw(IF trim(m.groups[1]) # <<>> THEN trim(m.groups[1])
         ELSE IF Len(m.groups) >= 2 THEN trim(m.groups[2]) ELSE <<>>)

RECURSIVE DescriptionSurvivorsOf(_, _, _)
DescriptionSurvivorsOf(k, ms, provider) ==
  IF ms = <<>> THEN <<>>
  ELSE DescriptionOf(k, Head(ms), provider) \o DescriptionSurvivorsOf(k, Tail(ms), provider)

RECURSIVE DescriptionSurvivorsFrom(_, _, _)
DescriptionSurvivorsFrom(k, text, provider) ==
  IF k > Len(DescriptionConfidence) THEN <<>>
  ELSE DescriptionSurvivorsOf(k, DescriptionMatchAll(k, text), provider)
       \o DescriptionSurvivorsFrom(k + 1, text, provider)

\* the descriptions that survive the skips, in the order seen
DescriptionSurvivors(text, provider) == DescriptionSurvivorsFrom(1, text, provider)

CompraEn == <<"C", "o", "m", "p", "r", "a", " ", "e", "n", " ">>

\* extractDescription without the fallbacks of lines 471-478: the properties of
\* extractDescription must tell the two apart
extractDescriptionNoFallback(text, provider) ==
  LET Best(best) == [description |-> Some(best.description), confidence |-> best.confidence]
  IN Best(BestOf([description |-> <<>>, confidence |-> Lit(0)],
                 DescriptionSurvivors(text, provider)))

extractDescription(text, provider) ==
  LET GastoRegistrado ==
        <<"G", "a", "s", "t", "o", " ", "r", "e", "g", "i", "s", "t", "r", "a", "d", "o">>
      Best(best) ==
        IF best.description = <<>> /\ ~IsNull(provider) /\ Val(provider) # <<>>
        THEN [description |-> Some(CompraEn \o Val(provider)), confidence |-> Lit(50)]
        ELSE IF best.description = <<>>
        THEN [description |-> Some(GastoRegistrado), confidence |-> Lit(30)]
        ELSE [description |-> Some(best.description), confidence |-> best.confidence]
  IN Best(BestOf([description |-> <<>>, confidence |-> Lit(0)],
                 DescriptionSurvivors(text, provider)))

(***************************************************************************)
(* heuristicExtraction                                                     *)
(***************************************************************************)
\* the weights of lines 504-509, in tenths
WeightAmount == 4

WeightDate == 3

WeightProvider == 2

WeightDescription == 1

\* the threshold of line 519, in thousandths
LLMThreshold == 600

\* weightedConfidence with the weights of amount and date exchanged: the
\* properties of heuristicExtraction must tell the two apart
weightedConfidenceSwapped(confidence) ==
  confidence.amount[1] * WeightDate + confidence.date[1] * WeightAmount
  + confidence.provider[1] * WeightProvider
  + confidence.description[1] * WeightDescription

\* lines 511-515, in thousandths: the sum of products is taken on the decimal
\* values of the confidences (the rounding of the double products is left out)
weightedConfidence(confidence) ==
  confidence.amount[1] * WeightAmount + confidence.date[1] * WeightDate
  + confidence.provider[1] * WeightProvider
  + confidence.description[1] * WeightDescription

heuristicExtraction(text) ==
  LET Result(data, overallConfidence) ==
        [data |-> data,
         shouldUseLLM |->
           \/ overallConfidence < LLMThreshold
           \/ (IsNull(data.amount) \/ Val(data.amount) = 0)
           \/ ((IsNull(data.date) \/ Val(data.date) = <<>>)
               /\ (IsNull(data.provider) \/ Val(data.provider) = <<>>)),
         overallConfidence |-> overallConfidence]
      Data(data) == Result(data, weightedConfidence(data.confidence))
      Collected(amountResult, dateResult, providerResult, descriptionResult) ==
        Data([description |-> descriptionResult.description,
              provider |-> providerResult.provider,
              amount |-> amountResult.amount,
              currency |-> amountResult.currency,
              date |-> dateResult.date,
              confidence |-> [amount |-> amountResult.confidence,
                              date |-> dateResult.confidence,
                              provider |-> providerResult.confidence,
                              description |-> descriptionResult.confidence]])
      Described(amountResult, dateResult, providerResult) ==
        Collected(amountResult, dateResult, providerResult,
                extractDescription(text, providerResult.provider))
  IN Described(extractAmount(text), extractDate(text), extractProvider(text))

(***************************************************************************)
(* validateAndFixFields (src/app/api/upload-receipt/route.ts).  The amount  *)
(* of its argument is a non-negative number held in decimal: the digits of  *)
(* its integer part without leading zeros and the digits of its fraction    *)
(* without trailing zeros (exact while a double holds the digits).          *)
(***************************************************************************)
Number(int, frac) ==
  LET
      StripLeadingZeros(d) ==
        LET nz == {i \in 1..Len(d) : d[i] # "0"}
        IN IF nz = {} THEN <<>> ELSE SubSeq(d, Min(nz), Len(d))
      StripTrailingZeros(d) ==
        LET nz == {i \in 1..Len(d) : d[i] # "0"}
        IN IF nz = {} THEN <<>> ELSE SubSeq(d, 1, Max(nz))
  IN [int |-> StripLeadingZeros(int), frac |-> StripTrailingZeros(frac)]

Zero == Number(<<>>, <<>>)

\* x > y on numbers
Greater(x, y) ==
  LET
      DigitAt(d, i) == IF i <= Len(d) THEN DigitOf[d[i]] ELSE 0
      \* a > b for digit strings read from the left, the shorter one padded with zeros
      LexGreater(a, b) ==
        \E i \in 1..(Len(a) + Len(b)) :
           /\ DigitAt(a, i) > DigitAt(b, i)
           /\ \A j \in 1..(i - 1) : DigitAt(a, j) = DigitAt(b, j)
  IN
  \/ Len(x.int) > Len(y.int)
  \/ Len(x.int) = Len(y.int) /\ LexGreater(x.int, y.int)
  \/ x.int = y.int /\ LexGreater(x.frac, y.frac)

\* Math.max(...amounts) of a non-empty list
MathMax(amounts) ==
  amounts[CHOOSE i \in 1..Len(amounts) :
            \A j \in 1..Len(amounts) : ~Greater(amounts[j], amounts[i])]

\* the end of \d+[.,]?\d* (greedy) for a digit at p: the position after it
DecimalShapeEnd(s, p) ==
  LET Fraction(e1) == RunEnd(s, IF IsSepAt(s, e1) THEN e1 + 1 ELSE e1, Digit) + 1
  IN Fraction(RunEnd(s, p, Digit) + 1)

\* description.match(/(\d+[.,]?\d*)/g) (line 122)
NumberMatchAll(s) ==
  LET Decimal(i, e) == Match(i, e, <<Sub(s, i, e - 1)>>)
      NumberMatchAt(i) ==
        IF IsDigitAt(s, i) THEN Decimal(i, DecimalShapeEnd(s, i)) ELSE NoMatch
  IN MatchesFrom([i \in 1..Len(s) |-> NumberMatchAt(i)], 1)

\* parseFloat(match.replace(',', '.')) for a match of \d+[.,]?\d* (line 124)
parseDecimal(match) ==
  LET Parts(e1) == Number(Sub(match, 1, e1), Sub(match, e1 + 2, Len(match)))
  IN Parts(RunEnd(match, 1, Digit))

\* /([A-Z..][a-z..\s]+(?:ABC|...|Farmacia))/i at i (line 133): a letter, the
\* longest run of letters and white space that leaves one of the alternatives
\* after it, and the first alternative that matches there
RepairProviderMatchAt(s, i) ==
  LET \* the alternatives of the business name pattern of line 133, in order
      RepairSuffixes ==
        << <<"A", "B", "C">>, <<"X", "Y", "Z">>, <<"S", ".", "A", ".">>, <<"S", ".", "A">>,
           <<"C", "o", "r", "p">>, <<"I", "n", "c">>, <<"L", "t", "d">>,
           <<"R", "e", "s", "t", "a", "u", "r", "a", "n", "t">>,
           <<"T", "i", "e", "n", "d", "a">>,
           <<"S", "u", "p", "e", "r", "m", "e", "r", "c", "a", "d", "o">>,
           <<"F", "a", "r", "m", "a", "c", "i", "a">> >>
      Suffixed(e) == Match(i, e, <<Sub(s, i, e - 1)>>)
      Last(p) ==
        Suffixed(p + Len(RepairSuffixes[
                       Min({a \in 1..Len(RepairSuffixes) :
                              OccursAtI(s, RepairSuffixes[a], p)})]))
      Name(at) == IF s[i] \in Letter /\ at # {} THEN Last(Max(at)) ELSE NoMatch
  IN Name({p \in (i + 2)..(RunEnd(s, i + 1, Letter \cup Space) + 1) :
             AnyOccursAtI(s, RepairSuffixes, p)})

\* string.match(pattern) without the g flag: the leftmost match
FirstMatch(at) ==
  LET Leftmost(starts) == IF starts = {} THEN NoMatch ELSE at[Min(starts)]
  IN Leftmost({j \in 1..Len(at) : at[j] # NoMatch})

\* /\d{1,2}[\/\-]\d{1,2}[\/\-]\d{2,4}/ at i (lines 140 and 185); the groups
\* are the parts of dateStr.split(/[\/\-]/)
DateShapeAt(s, i) ==
  LET sep == {p \in 1..Len(s) : IsDateSepAt(s, p)}
      Shape(n1, m, n2, y, e) ==
        IF n1 > 0 /\ n2 > 0 /\ IsDigitAt(s, y) /\ IsDigitAt(s, y + 1)
        THEN Match(i, e + 1, <<Sub(s, i, i + n1 - 1), Sub(s, m, m + n2 - 1), Sub(s, y, e)>>)
        ELSE NoMatch
      Third(n1, m, n2, y) == Shape(n1, m, n2, y, Min({RunEnd(s, y, Digit), y + 3}))
      Second(n1, m, n2) == Third(n1, m, n2, m + n2 + 1)
      First(n1, m) == Second(n1, m, OneOrTwoDigits(s, m, sep))
      Digits(n1) == First(n1, i + n1 + 1)
  IN Digits(OneOrTwoDigits(s, i, sep))

\* lines 143-169: the date assembled from the parts of the match
RepairedDate(parts) ==
  LET Assembled(day, month, year) ==
        year \o <<"-">> \o padStart2(month) \o <<"-">> \o padStart2(day)
      Ordered(first) ==
        Assembled(IF first > 12 THEN parts[1] ELSE parts[2],
                  IF first > 12 THEN parts[2] ELSE parts[1],
                  IF Len(parts[3]) = 4 THEN parts[3] ELSE <<"2", "0">> \o parts[3])
  IN Ordered(Val(parseInt(parts[1])))

\* /\$?\d+[.,]?\d*\s*(USD|EUR|Bs|€|£|¥)?/g at i (line 183)
ScrubAmountAt(s, i) ==
  LET \* the alternatives of the currency group of line 183, in order
      ScrubCurrencies ==
        << <<"U", "S", "D">>, <<"E", "U", "R">>, <<"B", "s">>, <<"€">>, <<"£">>, <<"¥">> >>
      Currency(e, at) ==
        Match(i, IF at = {} THEN e ELSE e + Len(ScrubCurrencies[Min(at)]), <<>>)
      Spaces(e) ==
        Currency(e, {a \in 1..Len(ScrubCurrencies) : OccursAt(s, ScrubCurrencies[a], e)})
      Digits(d) ==
        IF IsDigitAt(s, d) THEN Spaces(SkipSpaces(s, DecimalShapeEnd(s, d))) ELSE NoMatch
  IN Digits(IF s[i] = "$" /\ IsDigitAt(s, i + 1) THEN i + 1 ELSE i)

\* s.replace(pattern, '') under the g flag, given the match at each position
RemoveAll(s, at) ==
  LET Outside(matches) ==
        AtPositions(s, {i \in 1..Len(s) :
                          \A k \in 1..Len(matches) :
                             i < matches[k].index \/ i >= matches[k].end})
  IN Outside(MatchesFrom(at, 1))

\* The provider string read as a regular expression (line 188).  Patterns
\* are modelled over these characters: a letter, digit, blank, comma, colon
\* or ampersand stands for itself, a dot for any character but a line
\* terminator, and parentheses group.
\* new RegExp(pattern) throws a SyntaxError: a parenthesis is left unmatched
PatternThrows(pattern) ==
  LET Count(c, k) == Cardinality({i \in 1..k : pattern[i] = c})
  IN \/ \E k \in 1..Len(pattern) : Count(")", k) > Count("(", k)
     \/ Count("(", Len(pattern)) # Count(")", Len(pattern))

\* new RegExp(pattern, 'gi') at i
PatternMatchAt(s, pattern, i) ==
  LET Atoms(atoms) ==
        IF /\ i + Len(atoms) - 1 <= Len(s)
           /\ \A k \in 1..Len(atoms) :
                IF atoms[k] = "." THEN s[i + k - 1] # "\n"
                ELSE toLowerChar(s[i + k - 1]) = toLowerChar(atoms[k])
        THEN Match(i, i + Len(atoms), <<>>)
        ELSE NoMatch
  IN Atoms(Filter(pattern, Letter \cup Digit \cup {" ", ",", ":", "&", "."}))

\* the value a throwing call leaves in place of a result
SyntaxError == [error |-> "SyntaxError"]

validateAndFixFields(result) ==
  LET \* a string that is neither null nor empty
      Truthy(o) == ~IsNull(o) /\ Val(o) # <<>>
      Ellipsis == <<".", ".", ".">>
      CompraGeneral ==
        <<"C", "o", "m", "p", "r", "a", " ", "g", "e", "n", "e", "r", "a", "l">>
      text == Val(result.description)
      \* line 118
      trigger == /\ Truthy(result.description)
                 /\ Len(text) > 50
                 /\ ~Truthy(result.provider)
                 /\ (IsNull(result.amount) \/ Val(result.amount) = Zero)
      \* lines 122-130
      MaxAmount(maxAmount) ==
        IF Greater(maxAmount, Zero) THEN Some(maxAmount) ELSE result.amount
      Amount(amountMatch) ==
        IF trigger /\ amountMatch # <<>>
        THEN MaxAmount(MathMax([k \in 1..Len(amountMatch) |->
                                  parseDecimal(amountMatch[k].groups[1])]))
        ELSE result.amount
      \* lines 133-137
      Provider(providerMatch) ==
        IF trigger /\ providerMatch # NoMatch
        THEN Some(trim(providerMatch.groups[1])) ELSE result.provider
      \* lines 140-172
      Date(dateMatch) ==
        IF trigger /\ dateMatch # NoMatch
        THEN Some(RepairedDate(dateMatch.groups)) ELSE result.date
      \* lines 194-199
      Described(provider, cleaned) ==
        [result EXCEPT
           !.description = Some(IF Len(cleaned) >= 5 THEN cleaned
                                ELSE IF Truthy(provider) THEN CompraEn \o Val(provider)
                                ELSE CompraGeneral),
           !.provider = provider,
           !.amount = Amount(NumberMatchAll(text)),
           !.date = Date(FirstMatch([i \in 1..Len(text) |-> DateShapeAt(text, i)]))]
      \* lines 187-191
      NoProvider(provider, noDates) ==
        Described(provider,
                  trim(collapseSpaces(
                    IF Truthy(provider)
                    THEN RemoveAll(noDates, [i \in 1..Len(noDates) |->
                                               PatternMatchAt(noDates, Val(provider), i)])
                    ELSE noDates)))
      \* line 185
      NoDates(provider, noAmounts) ==
        NoProvider(provider,
                   RemoveAll(noAmounts,
                             [i \in 1..Len(noAmounts) |-> DateShapeAt(noAmounts, i)]))
      \* line 183
      NoAmounts(provider, truncated) ==
        NoDates(provider,
                RemoveAll(truncated,
                          [i \in 1..Len(truncated) |-> ScrubAmountAt(truncated, i)]))
      \* lines 175-177, and new RegExp of line 188
      Repaired(provider) ==
        IF Truthy(provider) /\ PatternThrows(Val(provider)) THEN SyntaxError
        ELSE NoAmounts(provider,
                       IF trigger /\ Len(text) > 100
                       THEN Sub(text, 1, 100) \o Ellipsis ELSE text)
  IN IF ~Truthy(result.description) THEN result
     ELSE Repaired(Provider(FirstMatch([i \in 1..Len(text) |->
                                          RepairProviderMatchAt(text, i)])))

(***************************************************************************)
(* parseTextWithAI (src/app/api/upload-receipt/route.ts).  The answer of the *)
(* AI model is held as what lines 276-304 make of it: no content ("none"),  *)
(* a content JSON.parse rejects ("invalid"), or the parsed object ("json"),  *)
(* whose fields are nullable (a missing field is null).                      *)
(***************************************************************************)
\* lines 307-319: x || null is null for a missing, null or empty x, and the
\* amount 0 is falsy
BuildResult(parsed) ==
  LET OrNull(o) == IF IsNull(o) \/ Val(o) = <<>> THEN Null ELSE o
  IN [description |-> OrNull(parsed.description),
      provider |-> OrNull(parsed.provider),
      amount |-> IF IsNull(parsed.amount) \/ Val(parsed.amount) = Zero
                 THEN Null ELSE parsed.amount,
      currency |-> OrNull(parsed.currency),
      date |-> OrNull(parsed.date),
      confidence |-> IF IsNull(parsed.confidence)
                     THEN [amount |-> Lit(80), date |-> Lit(80), provider |-> Lit(80),
                           description |-> Lit(80)]
                     ELSE Val(parsed.confidence)]

\* lines 330-342: the record the catch block returns
Fallback(text) ==
  [description |-> Some(Sub(text, 1, 100)
                        \o (IF Len(text) > 100 THEN <<".", ".", ".">> ELSE <<>>)),
   provider |-> Null,
   amount |-> Null,
   currency |-> Null,
   date |-> Null,
   confidence |-> [amount |-> Lit(10), date |-> Lit(10), provider |-> Lit(10),
                   description |-> Lit(10)]]

\* lines 276-343: what parseTextWithAI returns once the answer r has arrived.
\* Everything from line 276 on runs inside the try block, so an answer
\* without content, a JSON.parse that throws and a validateAndFixFields that
\* throws all end in the catch block
parseTextWithAI(text, r) ==
  LET Validated(result) == IF result = SyntaxError THEN Fallback(text) ELSE result
  IN IF r.kind = "json" THEN Validated(validateAndFixFields(BuildResult(r.parsed)))
     ELSE Fallback(text)

(***************************************************************************)
(* The calls the model makes.  Each behaviour is one call of one function   *)
(* on an argument drawn from the sets below; validateAndFixFields is also   *)
(* applied again to its own result, as a caller that repairs twice does,    *)
(* and parseTextWithAI waits for the answer of the AI model.                *)
(***************************************************************************)
\* the longest string of AmountAlphabet given to normalizeAmount
MaxAmountLen == 4

\* the number of times validateAndFixFields is applied in a row
MaxCalls == 2

\* the number of calls one process makes in a row
MaxHistory == 3

\* the number of upload requests of UploadReceipt in flight at once
MaxUploads == 3

\* the number of success-message timers of UploadReceipt pending at once
MaxTimers == 2

\* the number of loadRecords calls of RecordHistory in flight at once
MaxPending == 4

\* amountStr: every string of the characters 0, 5, dot and comma up to
\* MaxAmountLen, and amounts as receipts print them
AmountStrings ==
  {<<"1", "2", "3", ".", "4", "5">>,
   <<"1", ",", "2", "3", "4", ".", "5", "6">>,
   <<"1", ".", "2", "3", "4", ",", "5", "6">>,
   <<"1", ".", "2", "3", "4", ".", "5", "6", "7">>,
   <<"1", ".", "2", ".", "3", ".", "4", "5", "6">>,
   <<"$", "1", "2", "3", ".", "4", "5">>,
   <<"B", "s", " ", "1", "2", "3", "4", ",", "5", "6">>,
   <<" ", " ">>,
   <<"a", "b", "c">>,
   <<"1", "2", " ", "3", "4", "5">> }
  \cup UNION {[1..k -> {"0", "5", ".", ","}] : k \in 0..MaxAmountLen}

\* "Supermercado ABC S.A. - Total: $150.00 - Fecha: 15/01/2025 - Compra de
\* alimentos"
ReceiptExample ==
  <<"S", "u", "p", "e", "r", "m", "e", "r", "c", "a", "d", "o", " ", "A", "B", "C",
    " ", "S", ".", "A", ".", " ", "-", " ", "T", "o", "t", "a", "l", ":", " ", "$",
    "1", "5", "0", ".", "0", "0", " ", "-", " ", "F", "e", "c", "h", "a", ":", " ",
    "1", "5", "/", "0", "1", "/", "2", "0", "2", "5", " ", "-", " ", "C", "o", "m",
    "p", "r", "a", " ", "d", "e", " ", "a", "l", "i", "m", "e", "n", "t", "o", "s">>

\* text: the cases of testAmountExtraction, and receipt lines with dates,
\* business names and item descriptions
Texts ==
  {<<"$", "1", "2", "3", ".", "4", "5">>,
   <<"$", "1", ",", "2", "3", "4", ".", "5", "6">>,
   <<"€", "1", ".", "2", "3", "4", ",", "5", "6">>,
   <<"B", "s", " ", "1", "2", "3", "4", ",", "5", "6">>,
   <<"T", "o", "t", "a", "l", ":", " ", "$", "9", "9", ".", "9", "9">>,
   <<"S", "u", "m", "a", ":", " ", "€", "1", "5", "0", ".", "0", "0">>,
   <<"M", "o", "n", "t", "o", ":", " ", "B", "s", " ", "2", "5", "0", ".", "5", "0">>,
   <<"1", "2", "3", ".", "4", "5", " ", "U", "S", "D">>,
   <<"1", ",", "2", "3", "4", ".", "5", "6", " ", "€">>,
   <<"9", "9", ".", "9", "9">>,
   <<"1", "5", "0", ".", "0", "0">>,
   <<"2", "5", "0", ".", "5", "0">>,
   <<"T", "O", "T", "A", "L", ":", " ", "$", "1", ".", "2", "3", "4", ",", "5", "6">>,
   <<"S", "U", "B", "T", "O", "T", "A", "L", ":", " ", "€", "9", "9", ".", "9", "9">>,
   <<"I", "M", "P", "O", "R", "T", "E", ":", " ", "B", "s", " ", "1", "5", "0", ".",
      "0", "0">>,
   <<>>,
   <<"T", "o", "t", "a", "l", ":", " ", "$", "1", ".", "2", "3", "4", ",", "5", "6">>,
   <<"0", ".", "0", "5">>,
   <<"J", "u", "a", "n", " ", "P", "e", "r", "e", "z", " ", "y", " ", "M", "a", "r",
      "i", "a", " ", "L", "o", "p", "e", "z">>,
   <<"C", "a", "s", "a", " ", "G", "r", "a", "n", "d", "e", " ", "A", "v", ".", " ",
      "S", "o", "l">>,
   <<"P", "a", "g", "o", " ", "T", "o", "t", "a", "l">>,
   <<"3", "1", "/", "0", "2", "/", "2", "0", "2", "5", " ", "y", " ", "1", "5", "/",
      "0", "1", "/", "2", "0", "2", "5">>,
   <<"a", " ", " ", " ", " ", " ", " ", " ", " ", "b">>,
   <<"c", "o", "m", "p", "r", "a", " ", "d", "e", " ", "u", "n", " ", "i", "t", "e", "m">>,
   <<"1", "5", "0", ".", "0", "0", " ", "6", "0", ".", "0", "0", " ", "3", "0", "0",
      "0", " ", "s", "u", "m", "a">>,
   <<"1", "5", "/", "0", "1", "/", "2", "0", "2", "5">>,
   <<"0", "1", "/", "1", "5", "/", "2", "0", "2", "5">>,
   <<"1", "5", "-", "0", "1", "-", "2", "0", "2", "5">>,
   <<"1", "5", " ", "e", "n", "e", "r", "o", " ", "2", "0", "2", "5">>,
   <<"3", " ", "M", "A", "R", "C", "H", " ", "2", "0", "2", "4">>,
   <<"3", "2", "/", "1", "3", "/", "2", "0", "2", "5">>,
   <<"2", "0", "2", "5", "-", "0", "1", "-", "1", "5">>,
   <<"F", "e", "c", "h", "a", " ", "2", "0", "2", "4", "-", "0", "2", "-", "2", "9",
      " ", "h", "o", "r", "a", " ", "1", "0">>,
   <<"2", "0", "2", "5", "-", "0", "2", "-", "2", "9", " ", "y", " ", "2", "0", "2",
      "5", "-", "0", "3", "-", "0", "1">>,
   <<"1", "/", "2", "/", "2", "0", "2", "5", "/", "3", "/", "4">>,
   <<"T", "i", "e", "n", "d", "a", " ", "M", "a", "r", "i", "a", " ", "S", "h", "o",
      "p", " ", "f", "a", "c", "t", "u", "r", "a", " ", "2", "0", "2", "5", "-", "0",
      "3", "-", "0", "4", " ", "t", "o", "t", "a", "l", " ", "5", "0", ".", "0", "0">>,
   <<"P", "r", "o", "v", "e", "e", "d", "o", "r", ":", " ", "A", "c", "m", "e", " ",
      "T", "o", "o", "l", "s", " ", "2", "0", "2", "4", "-", "0", "2", "-", "2", "9",
      " ", "T", "o", "t", "a", "l", ":", " ", "1", ".", "2", "3", "4", ",", "5", "6",
      " ", "i", "t", "e", "m", ":", " ", "c", "l", "a", "v", "o", "s", " ", "y", " ",
      "t", "o", "r", "n", "i", "l", "l", "o", "s">>,
   <<"F", "a", "r", "m", "a", "c", "i", "a", " ", "C", "r", "u", "z", " ", "V", "e",
      "r", "d", "e", " ", "2", "0", "2", "5", "/", "1", "/", "5", " ", "t", "o", "t",
      "a", "l", " ", "8", "0", ".", "0", "0", " ", "c", "o", "m", "p", "r", "a", " ",
      "d", "e", " ", "m", "e", "d", "i", "c", "i", "n", "a", "s">>,
   <<"2", "0", "2", "5", "-", "0", "6", "-", "3", "0", " ", "S", "u", "m", "a", " ",
      "7", "5", ".", "5", "0", " ", "s", "e", "r", "v", "i", "c", "i", "o", " ", "d",
      "e", " ", "t", "a", "x", "i">>,
   <<"R", "e", "s", "t", "a", "u", "r", "a", "n", "t", " ", "E", "l", " ", "B", "u",
      "e", "n", " ", "S", "a", "b", "o", "r">>,
   <<"J", "u", "a", "n", " ", "P", "e", "r", "e", "z", " ", "L", "o", "p", "e", "z">>,
   <<"i", "t", "e", "m", ":", " ", "a", "b", "c", "d", "e">>,
   <<"2", " ", "C", "a", "f", "e", " ", "c", "o", "n", " ", "l", "e", "c", "h", "e",
      " ", "3", ".", "5", "0", " ", "$">>,
   <<"h", "e", "l", "l", "o", " ", "w", "o", "r", "l", "d">>,
   <<"S", "e", "r", "v", "i", "c", "i", "o", " ", "d", "e", " ", "t", "a", "x", "i",
      " ", "a", "l", " ", "a", "e", "r", "o", "p", "u", "e", "r", "t", "o">>,
   <<"t", "o", "t", "a", "l", " ", "5", " ", "t", "o", "t", "a", "l", " ", "9">>,
   <<"P", "r", "e", "c", "i", "o", " ", "1", "2", "0", "0", " ", "e", "l", " ", "1",
      "9", "9", "9", "-", "1", "2", "-", "3", "1", " ", "e", "n", " ", "L", "i", "b",
      "r", "e", "r", "i", "a", " ", "S", "o", "l", " ", "S", ".", "A", ".">>,
   <<"0", ",", "5", "0", " ", "y", " ", "0", ",", "0", "7">>,
   <<"g", "r", "a", "c", "i", "a", "s", " ", "p", "o", "r", " ", "s", "u", " ", "c",
      "o", "m", "p", "r", "a">>,
   <<"0", ".", "0", "0">>,
   <<"L", "l", "a", "v", "e", " ", "0", ".", "0", "5", "m">> }
  \cup {ReceiptExample}

DateYears == {1899, 1900, 2000, 2024, 2025, 2100, 2101}

DateMonths == {0, 1, 2, 4, 12, 13}

DateDays == {0, 1, 28, 29, 30, 31, 32}

\* the text "y-m-d"
YearMonthDay(y, m, d) == toDigits(y) \o <<"-">> \o toDigits(m) \o <<"-">> \o toDigits(d)

\* text: year-first dates, inside and outside the calendar
DateTexts == {YearMonthDay(y, m, d) : y \in DateYears, m \in DateMonths, d \in DateDays}

\* provider: null or a business name
Providers ==
  {Null} \cup
  {Some(p) : p \in
  {<<>>,
   <<"F", "o", "o">>,
   <<"S", ".", "A", ".">>,
   <<"T", "i", "e", "n", "d", "a", " ", "M", "a", "r", "i", "a", " ", "S", "h", "o",
      "p">>,
   <<"F", "o", "(", "o">> }}

\* result.description: what the AI model may answer with
Descriptions ==
  {<<>>,
   <<"c", "o", "m", "p", "r", "a", " ", "e", "n", " ", "T", "i", "e", "n", "d", "a",
      " ", "M", "a", "r", "i", "a", " ", " ", "S", "h", "o", "p">>,
   <<"c", "o", "m", "p", "r", "a", " ", "d", "e", "l", " ", "3", "1", "/", "0", "2",
      "/", "2", "0", "2", "5", " ", "e", "n", " ", "l", "a", " ", "e", "s", "q", "u",
      "i", "n", "a", " ", "y", " ", "m", "u", "c", "h", "o", " ", "m", "a", "s", " ",
      "t", "e", "x", "t", "o", " ", "l", "a", "r", "g", "o">>,
   <<"a", "b", "c">>,
   <<"C", "o", "m", "p", "r", "a", " ", "e", "n", " ", "F", "o", "o">>,
   <<"C", "o", "m", "p", "r", "a", " ", "d", "e", " ", "a", "l", "i", "m", "e", "n",
      "t", "o", "s">>,
   <<"P", "a", "g", "o", " ", "1", "2", ".", "5", "0", " ", "U", "S", "D", " ", "e",
      "n", " ", "c", "a", "j", "a">>,
   <<"F", "o", "o", " ", "b", "a", "r", " ", "F", "o", "o", " ", "b", "a", "z", " ",
      "f", "o", "o">>,
   <<"a", ".", "b", " ", "S", ".", "A", ".", " ", "c", "d", "e", " ", "s", "x", "a">>,
   <<"1", "2", "/", "0", "5", "/", "2", "0", "2", "5", " ", "c", "o", "m", "p", "r",
      "a">>,
   <<"S", "u", "p", "e", "r", "m", "e", "r", "c", "a", "d", "o", " ", "A", "B", "C",
      " ", "S", ".", "A", ".", " ", "-", " ", "T", "o", "t", "a", "l", ":", " ", "$",
      "1", "5", "0", ".", "0", "0", " ", "-", " ", "F", "e", "c", "h", "a", ":", " ",
      "1", "5", "/", "0", "1", "/", "2", "0", "2", "5", " ", "-", " ", "C", "o", "m",
      "p", "r", "a", " ", "d", "e", " ", "a", "l", "i", "m", "e", "n", "t", "o", "s">>,
   <<"F", "a", "c", "t", "u", "r", "a", " ", "F", "a", "r", "m", "a", "c", "i", "a",
      " ", "X", "Y", "Z", " ", "t", "o", "t", "a", "l", " ", "1", "2", ",", "5", " ",
      "y", " ", "3", "0", "0", ".", "7", "5", " ", "e", "l", " ", "5", "/", "3", "/",
      "2", "4", " ", "o", "k", " ", "y", " ", "m", "u", "c", "h", "o", " ", "m", "a",
      "s", " ", "t", "e", "x", "t", "o", " ", "l", "a", "r", "g", "o", " ", "p", "a",
      "r", "a", " ", "p", "a", "s", "a", "r", " ", "d", "e", " ", "c", "i", "n", "c",
      "u", "e", "n", "t", "a", " ", "c", "a", "r", "a", "c", "t", "e", "r", "e", "s">>,
   <<"c", "o", "m", "p", "r", "a", " ", "e", "n", " ", "l", "a", " ", "t", "i", "e",
      "n", "d", "a", " ", "M", "a", "r", "i", "a", " ", "I", "n", "c", ".", " ", "p",
      "o", "r", " ", "0", ",", "0", " ", "y", " ", "0", " ", "e", "l", " ", "1", "3",
      "-", "2", "-", "2", "0", "2", "5", " ", "y", " ", "1", "/", "2", "/", "3", "4",
      "5", "6", "7", "8", " ", "y", " ", "m", "u", "c", "h", "o", " ", "m", "a", "s",
      " ", "t", "e", "x", "t", "o", " ", "l", "a", "r", "g", "o", " ", "p", "a", "r",
      "a", " ", "p", "a", "s", "a", "r", " ", "d", "e", " ", "c", "i", "n", "c", "u",
      "e", "n", "t", "a", " ", "c", "a", "r", "a", "c", "t", "e", "r", "e", "s">>,
   <<"s", "i", "n", " ", "n", "u", "m", "e", "r", "o", "s", " ", "n", "i", " ", "n",
      "a", "d", "a", " ", "q", "u", "e", " ", "e", "x", "t", "r", "a", "e", "r", " ",
      "d", "e", " ", "e", "s", "t", "e", " ", "t", "e", "x", "t", "o", " ", "t", "a",
      "n", " ", "l", "a", "r", "g", "o", " ", "q", "u", "e", " ", "p", "a", "s", "a",
      " ", "d", "e", " ", "c", "i", "n", "c", "u", "e", "n", "t", "a">>,
   <<"x", "x", "x", "x", "x", "x", "x", "x", "x", "x", "x", "x", "x", "x", "x", "x",
      "x", "x", "x", "x", "x", "x", "x", "x", "x", "x", "x", "x", "x", "x", "x", "x",
      "x", "x", "x", "x", "x", "x", "x", "x", "x", "x", "x", "x", "x", "x", "x", "x",
      "x", "1">>,
   <<"x", "x", "x", "x", "x", "x", "x", "x", "x", "x", "x", "x", "x", "x", "x", "x",
      "x", "x", "x", "x", "x", "x", "x", "x", "x", "x", "x", "x", "x", "x", "x", "x",
      "x", "x", "x", "x", "x", "x", "x", "x", "x", "x", "x", "x", "x", "x", "x", "x",
      "x", "x", "1">>,
   <<"a", "b", " ", "a", "b", " ", "a", "b", " ", "a", "b", " ", "a", "b", " ", "a",
      "b", " ", "a", "b", " ", "a", "b", " ", "a", "b", " ", "a", "b", " ", "a", "b",
      " ", "a", "b", " ", "a", "b", " ", "a", "b", " ", "a", "b", " ", "a", "b", " ",
      "a", "b", " ", "a", "b", " ", "a", "b", " ", "a", "b", " ", "a", "b", " ", "a",
      "b", " ", "a", "b", " ", "a", "b", " ", "a", "b", " ", "a", "b", " ", "a", "b",
      " ", "a", "b", " ", "a", "b", " ", "a", "b", " ", "a", "b", " ", "a", "b", " ",
      "a", "b", " ", "7">>,
   <<"a", "b", " ", "a", "b", " ", "a", "b", " ", "a", "b", " ", "a", "b", " ", "a",
      "b", " ", "a", "b", " ", "a", "b", " ", "a", "b", " ", "a", "b", " ", "a", "b",
      " ", "a", "b", " ", "a", "b", " ", "a", "b", " ", "a", "b", " ", "a", "b", " ",
      "a", "b", " ", "a", "b", " ", "a", "b", " ", "a", "b", " ", "a", "b", " ", "a",
      "b", " ", "a", "b", " ", "a", "b", " ", "a", "b", " ", "a", "b", " ", "a", "b",
      " ", "a", "b", " ", "a", "b", " ", "a", "b", " ", "a", "b", " ", "a", "b", " ",
      "a", "b", " ", "a", "b", " ", "7", " ", "8", " ", "9">>,
   <<"E", "l", " ", "R", "e", "s", "t", "a", "u", "r", "a", "n", "t", " ", "S", "u",
      "p", "e", "r", "m", "e", "r", "c", "a", "d", "o", " ", "C", "o", "r", "p", " ",
      "S", ".", "A", ".", " ", "0", "0", "1", ".", "5", "0", "0", ",", " ", "2", ".",
      ",", "3", " ", "y", " ", "m", "u", "c", "h", "o", " ", "m", "a", "s", " ", "t",
      "e", "x", "t", "o", " ", "l", "a", "r", "g", "o", " ", "p", "a", "r", "a", " ",
      "p", "a", "s", "a", "r", " ", "d", "e", " ", "c", "i", "n", "c", "u", "e", "n",
      "t", "a", " ", "c", "a", "r", "a", "c", "t", "e", "r", "e", "s">>,
   <<"P", "a", "g", "o", " ", "d", "e", "l", " ", "3", "1", "/", "0", "2", "/", "2",
      "0", "2", "5", " ", "p", "o", "r", " ", "4", "0", " ", "e", "n", " ", "e", "f",
      "e", "c", "t", "i", "v", "o", ",", " ", "g", "r", "a", "c", "i", "a", "s", " ",
      "p", "o", "r", " ", "s", "u", " ", "v", "i", "s", "i", "t", "a", " ", "y", " ",
      "v", "u", "e", "l", "v", "a", " ", "p", "r", "o", "n", "t", "o">>,
   <<"U", "n", "o", " ", "(", "d", "o", "s", ")", " ", "t", "r", "e", "s">> }

\* result: the records parseTextWithAI builds (lines 307-319)
Results ==
  LET \* the default confidence of lines 313-318
      DefaultConfidence ==
        [amount |-> Lit(80), date |-> Lit(80), provider |-> Lit(80),
         description |-> Lit(80)]
  IN
  [description : {Null} \cup {Some(d) : d \in Descriptions},
   provider : Providers,
   amount : {Null, Some(Zero), Some(Number(<<"1", "5", "0">>, <<>>))},
   currency : {Some(USD)},
   date : {Null},
   confidence : {DefaultConfidence}]

\* parsed: the objects the answer of the AI model may hold
ParsedObjects ==
  [description : {Null, Some(<<>>), Some(<<"a", "b", "c">>),
                  Some(<<"C", "o", "m", "p", "r", "a", " ", "d", "e", " ", "a", "l", "i",
                         "m", "e", "n", "t", "o", "s">>),
                  Some(ReceiptExample)},
   provider : {Null, Some(<<"F", "o", "o">>), Some(<<"F", "o", "(", "o">>)},
   amount : {Null, Some(Zero), Some(Number(<<"1", "5", "0">>, <<>>))},
   currency : {Null, Some(USD)},
   date : {Null, Some(<<"2", "0", "2", "5", "-", "0", "1", "-", "1", "5">>)},
   confidence : {Null,
                 Some([amount |-> Lit(95), date |-> Lit(90), provider |-> Lit(85),
                       description |-> Lit(80)]),
                 Some([amount |-> Lit(90)])}]

\* the answers of the AI model that arrive
Responses ==
  {[kind |-> "none"], [kind |-> "invalid"]}
  \cup {[kind |-> "json", parsed |-> p] : p \in ParsedObjects}

(***************************************************************************)
(* The state machine: fn and arg are the call, pc is "call" before it runs, *)
(* "await" while it waits for the AI model and "done" after, ret is what it *)
(* returned, calls counts the applications of validateAndFixFields,         *)
(* response is the answer of the AI model once it has arrived, lastIndex    *)
(* is the lastIndex of each of the patterns AMOUNT_PATTERNS and             *)
(* DATE_PATTERNS, which live as long as the module, and history lists the   *)
(* calls completed so far.                                                  *)
(***************************************************************************)
\* The components around the core as they are when they are first rendered
\* and no request has arrived: UploadReceipt (useState of lines 25-40, no
\* request in flight, no timer set), RecordHistory (useState of lines 267-280
\* of getFilteredRecords.ts, with the loadRecords call of the mount effect in
\* flight) and the POST handler of route.ts.  Of the five filters, category
\* and minAmount are held; records is the list shown, held as the options it
\* was fetched for.
Mounted ==
  /\ uploadReceipt =
       [uploadState |-> [isUploading |-> FALSE, success |-> FALSE, error |-> Null],
        modalData |-> [isOpen |-> FALSE, extracted |-> Null],
        inFlight |-> 0,
        timers |-> 0]
  /\ recordHistory =
       [records |-> <<>>,
        error |-> Null,
        loading |-> TRUE,
        filters |-> [category |-> "all", minAmount |-> <<>>],
        sort |-> [field |-> "date", direction |-> "desc"],
        pending |-> << [category |-> Null, minAmount |-> Null,
                        sortField |-> "date", sortDirection |-> "desc"] >>]
  /\ post =
       [pc |-> "idle", userId |-> Null, file |-> Null, extractedText |-> <<>>,
        parsedData |-> Null, status |-> Null, uploads |-> <<>>, aiCalls |-> 0]

Calls ==
  [fn : {"normalizeAmount"}, arg : AmountStrings]
  \* text: what parseTextWithAI is called with, up to 100 characters and more
  \cup [fn : {"parseTextWithAI"},
        arg : {<<"h", "o", "l", "a">>, ReceiptExample \o <<"\n">> \o ReceiptExample}]
  \cup [fn : {"extractAmount", "extractProvider", "heuristicExtraction"}, arg : Texts]
  \cup [fn : {"extractDate"}, arg : Texts \cup DateTexts]
  \cup [fn : {"extractDescription"}, arg : [text : Texts, provider : Providers]]
  \cup [fn : {"validateAndFixFields"}, arg : Results]

Init ==
  \E call \in Calls :
     /\ fn = call.fn
     /\ arg = call.arg
     /\ pc = "call"
     /\ ret = Null
     /\ calls = 0
     /\ response = Null
     /\ lastIndex = [AMOUNT_PATTERNS |-> <<0, 0, 0, 0, 0, 0, 0>>,
                     DATE_PATTERNS |-> <<0, 0, 0>>]
     /\ history = <<>>
     /\ Mounted

\* no function of the core calls exec or test on a pattern, or assigns its
\* lastIndex: a call leaves lastIndex as it found it
Return(value) ==
  /\ ret' = value
  /\ pc' = "done"
  /\ history' = Append(history, [fn |-> fn, arg |-> arg, ret |-> value])
  /\ UNCHANGED <<fn, arg, calls, response, lastIndex, uploadReceipt, recordHistory, post>>

NormalizeAmount ==
  /\ pc = "call" /\ fn = "normalizeAmount"
  /\ Return(normalizeAmount(arg))

ExtractAmount ==
  /\ pc = "call" /\ fn = "extractAmount"
  /\ Return(extractAmount(arg))

ExtractDate ==
  /\ pc = "call" /\ fn = "extractDate"
  /\ Return(extractDate(arg))

ExtractProvider ==
  /\ pc = "call" /\ fn = "extractProvider"
  /\ Return(extractProvider(arg))

ExtractDescription ==
  /\ pc = "call" /\ fn = "extractDescription"
  /\ Return(extractDescription(arg.text, arg.provider))

HeuristicExtraction ==
  /\ pc = "call" /\ fn = "heuristicExtraction"
  /\ Return(heuristicExtraction(arg))

\* the first application is to the argument of the call, a later one to the
\* record the previous application returned
ValidateAndFixFields ==
  /\ fn = "validateAndFixFields"
  /\ calls < MaxCalls
  /\ pc = "done" => ret # SyntaxError
  /\ arg' = IF pc = "call" THEN arg ELSE ret
  /\ ret' = validateAndFixFields(arg')
  /\ calls' = calls + 1
  /\ pc' = "done"
  /\ history' = Append(history, [fn |-> fn, arg |-> arg', ret |-> ret'])
  /\ UNCHANGED <<fn, response, lastIndex, uploadReceipt, recordHistory, post>>

\* lines 203-274: the prompt is built and sent, and the function waits
ParseTextWithAI ==
  /\ fn = "parseTextWithAI" /\ pc = "call"
  /\ pc' = "await"
  /\ UNCHANGED <<fn, arg, ret, calls, response, lastIndex, history, uploadReceipt, recordHistory, post>>

\* lines 276-325 and the catch block: the answer r arrives; an answer that
\* parses is built into a record and given to validateAndFixFields (line 322)
ParseTextWithAIAnswer ==
  /\ fn = "parseTextWithAI" /\ pc = "await"
  /\ \E r \in Responses :
       /\ response' = Some(r)
       /\ ret' = parseTextWithAI(arg, r)
       /\ calls' = IF r.kind = "json" THEN calls + 1 ELSE calls
       /\ history' =
            (IF r.kind = "json"
             THEN << [fn |-> "validateAndFixFields", arg |-> BuildResult(r.parsed),
                      ret |-> validateAndFixFields(BuildResult(r.parsed))] >>
             ELSE <<>>)
            \o << [fn |-> fn, arg |-> arg, ret |-> parseTextWithAI(arg, r)] >>
  /\ pc' = "done"
  /\ UNCHANGED <<fn, arg, lastIndex, uploadReceipt, recordHistory, post>>

\* the catch block of lines 327-343 when the request itself fails
ParseTextWithAIFailure ==
  /\ fn = "parseTextWithAI" /\ pc = "await"
  /\ response' = Some([kind |-> "rejected"])
  /\ ret' = parseTextWithAI(arg, [kind |-> "rejected"])
  /\ pc' = "done"
  /\ history' = Append(history, [fn |-> fn, arg |-> arg, ret |-> ret'])
  /\ UNCHANGED <<fn, arg, calls, lastIndex, uploadReceipt, recordHistory, post>>

Next ==
  \/ ParseTextWithAI
  \/ ParseTextWithAIAnswer
  \/ ParseTextWithAIFailure
  \/ NormalizeAmount
  \/ ExtractAmount
  \/ ExtractDate
  \/ ExtractProvider
  \/ ExtractDescription
  \/ HeuristicExtraction
  \/ ValidateAndFixFields

Spec == Init /\ [][Next]_vars

(***************************************************************************)
(* One process that makes several extraction calls in a row: the module    *)
(* level patterns AMOUNT_PATTERNS and DATE_PATTERNS outlive a call, and     *)
(* the next call finds them as the previous one left them.                  *)
(***************************************************************************)
SessionCalls ==
  [fn : {"extractAmount", "extractDate", "heuristicExtraction"},
   arg : {ReceiptExample, <<"1", "5", "0", ".", "0", "0">>}]

SessionInit ==
  \E call \in SessionCalls :
     /\ fn = call.fn
     /\ arg = call.arg
     /\ pc = "call"
     /\ ret = Null
     /\ calls = 0
     /\ response = Null
     /\ lastIndex = [AMOUNT_PATTERNS |-> <<0, 0, 0, 0, 0, 0, 0>>,
                     DATE_PATTERNS |-> <<0, 0, 0>>]
     /\ history = <<>>
     /\ Mounted

\* the call has returned and the process makes its next call
NextCall ==
  /\ pc = "done"
  /\ Len(history) < MaxHistory
  /\ \E call \in SessionCalls :
       /\ fn' = call.fn
       /\ arg' = call.arg
  /\ pc' = "call"
  /\ ret' = Null
  /\ UNCHANGED <<calls, response, lastIndex, history, uploadReceipt, recordHistory, post>>

SessionNext ==
  \/ NextCall
  \/ ExtractAmount
  \/ ExtractDate
  \/ HeuristicExtraction

SessionSpec == SessionInit /\ [][SessionNext]_vars

(***************************************************************************)
(* The components around the core, each on its own: no call of the core is *)
(* being made.                                                             *)
(***************************************************************************)
ComponentsInit ==
  /\ fn = "none" /\ arg = <<>> /\ pc = "done" /\ ret = Null
  /\ calls = 0 /\ response = Null /\ history = <<>>
  /\ lastIndex = [AMOUNT_PATTERNS |-> <<0, 0, 0, 0, 0, 0, 0>>,
                  DATE_PATTERNS |-> <<0, 0, 0>>]
  /\ Mounted

(***************************************************************************)
(* UploadReceipt (src/unnamed/part_002).  inFlight counts the calls of     *)
(* processFile that wait at fetch or response.json() (lines 77-82), timers  *)
(* the callbacks of setTimeout (line 160) that have not run yet.            *)
(***************************************************************************)
\* lines 44-75: processFile until its first await; file.type is a text and
\* file.size a number of bytes
processFile(file) ==
  LET isPDF == file.type = <<"a", "p", "p", "l", "i", "c", "a", "t", "i", "o", "n", "/",
                             "p", "d", "f">>
      isImage == OccursAt(file.type, <<"i", "m", "a", "g", "e", "/">>, 1)
      maxSize == 10 * 1024 * 1024
      Failed(message) ==
        uploadReceipt' =
          [uploadReceipt EXCEPT
             !.uploadState = [isUploading |-> FALSE, success |-> FALSE,
                              error |-> Some(message)]]
  IN /\ IF ~isPDF /\ ~isImage THEN Failed("Please select a PDF or image file")
        ELSE IF file.size > maxSize THEN Failed("File size must be less than 10MB")
        ELSE /\ uploadReceipt.inFlight < MaxUploads
             /\ uploadReceipt' =
                  [uploadReceipt EXCEPT
                     !.uploadState = [isUploading |-> TRUE, success |-> FALSE,
                                      error |-> Null],
                     !.inFlight = @ + 1]
     /\ UNCHANGED <<fn, arg, pc, ret, calls, response, lastIndex, history,
                    recordHistory, post>>

\* lines 119-123: the file input is disabled while uploadState.isUploading
\* (line 200), so that a file is chosen only when it is false
HandleFileUpload ==
  /\ ~uploadReceipt.uploadState.isUploading
  /\ \E file \in [type : {<<"a", "p", "p", "l", "i", "c", "a", "t", "i", "o", "n", "/",
                             "p", "d", "f">>,
                           <<"i", "m", "a", "g", "e", "/", "p", "n", "g">>,
                           <<"t", "e", "x", "t", "/", "p", "l", "a", "i", "n">>},
                   size : {1024, 10 * 1024 * 1024, 10 * 1024 * 1024 + 1}] :
       processFile(file)

\* lines 125-133: onDrop of the drop zone (line 191) has no such condition
HandleDrop ==
  \E file \in [type : {<<"a", "p", "p", "l", "i", "c", "a", "t", "i", "o", "n", "/",
                          "p", "d", "f">>,
                        <<"i", "m", "a", "g", "e", "/", "p", "n", "g">>,
                        <<"t", "e", "x", "t", "/", "p", "l", "a", "i", "n">>},
                size : {1024, 10 * 1024 * 1024, 10 * 1024 * 1024 + 1}] :
     LET files == <<file>>
     IN /\ Len(files) > 0
        /\ processFile(files[1])

\* lines 77-116: one call of processFile goes on after its awaits; the
\* request was answered with response.ok ("ok"), with an error status and
\* data.error or without it, or fetch or response.json() rejected
ProcessFileAnswer ==
  /\ uploadReceipt.inFlight > 0
  /\ \E answer \in {"ok", "error", "no error text", "rejected"} :
       uploadReceipt' =
         [uploadReceipt EXCEPT
            !.uploadState =
               [isUploading |-> FALSE, success |-> FALSE,
                error |-> CASE answer = "ok" -> Null
                            [] answer = "error" -> Some("Failed to process receipt")
                            [] answer = "no error text" -> Some("Upload failed")
                            [] answer = "rejected" -> Some("Failed to fetch")],
            !.modalData = IF answer = "ok"
                          THEN [isOpen |-> TRUE, extracted |-> Some("extracted")]
                          ELSE @,
            !.inFlight = @ - 1]
  /\ UNCHANGED <<fn, arg, pc, ret, calls, response, lastIndex, history,
                 recordHistory, post>>

\* lines 139-146; the modal is rendered when modalData.extracted is set
\* (line 285) and shows its buttons when isOpen
HandleModalClose ==
  /\ ~IsNull(uploadReceipt.modalData.extracted) /\ uploadReceipt.modalData.isOpen
  /\ uploadReceipt' =
       [uploadReceipt EXCEPT !.modalData = [isOpen |-> FALSE, extracted |-> Null]]
  /\ UNCHANGED <<fn, arg, pc, ret, calls, response, lastIndex, history,
                 recordHistory, post>>

\* lines 148-167, followed by handleModalClose: the modal calls onSuccess()
\* and then onClose() (part_001, lines 64-65)
HandleModalSuccess ==
  /\ ~IsNull(uploadReceipt.modalData.extracted) /\ uploadReceipt.modalData.isOpen
  /\ uploadReceipt.timers < MaxTimers
  /\ uploadReceipt' =
       [uploadReceipt EXCEPT
          !.uploadState = [isUploading |-> FALSE, success |-> TRUE, error |-> Null],
          !.modalData = [isOpen |-> FALSE, extracted |-> Null],
          !.timers = @ + 1]
  /\ UNCHANGED <<fn, arg, pc, ret, calls, response, lastIndex, history,
                 recordHistory, post>>

\* lines 160-166: the callback of setTimeout runs
SuccessTimer ==
  /\ uploadReceipt.timers > 0
  /\ uploadReceipt' =
       [uploadReceipt EXCEPT
          !.uploadState = [isUploading |-> FALSE, success |-> FALSE, error |-> Null],
          !.timers = @ - 1]
  /\ UNCHANGED <<fn, arg, pc, ret, calls, response, lastIndex, history,
                 recordHistory, post>>

UploadReceiptSpec ==
  /\ ComponentsInit
  /\ [][
        \/ HandleFileUpload
        \/ HandleDrop
        \/ ProcessFileAnswer
        \/ HandleModalClose
        \/ HandleModalSuccess
        \/ SuccessTimer
     ]_vars

(***************************************************************************)
(* RecordHistory (src/app/actions/getFilteredRecords.ts).  pending holds    *)
(* the options of the loadRecords calls that wait at getFilteredRecords     *)
(* (line 296).  The list a call fetches is held as the options it was       *)
(* fetched for: the records of the user do not change meanwhile.            *)
(***************************************************************************)
\* lines 286-294; minAmount is a text of digits
filterOptions(filterState, sortState) ==
  [category |-> IF filterState.category # "all" THEN Some(filterState.category)
                ELSE Null,
   minAmount |-> IF filterState.minAmount # <<>>
                 THEN Some(parseFloat(filterState.minAmount, <<>>))
                 ELSE Null,
   sortField |-> IF sortState.field # "" THEN sortState.field ELSE "date",
   sortDirection |-> IF sortState.direction # "" THEN sortState.direction
                     ELSE "desc"]

\* lines 283-296: loadRecords until its await, in the component state rh.
\* After a handler has changed filters or sort, loadRecords is a new function
\* (line 311) and the effect of lines 313-315 calls it once more, with its
\* default arguments: the second call in each handler below.
loadRecords(rh, filterState, sortState) ==
  [rh EXCEPT !.loading = TRUE,
             !.pending = Append(@, filterOptions(filterState, sortState))]

\* lines 329-333, then the effect
HandleFilterChange ==
  /\ Len(recordHistory.pending) + 2 <= MaxPending
  /\ \E change \in ({"category"} \X {"all", "Food"})
                    \cup ({"minAmount"} \X {<<>>, <<"1", "0">>}) :
       LET newFilters == [recordHistory.filters EXCEPT ![change[1]] = change[2]]
       IN recordHistory' =
            loadRecords(
              loadRecords([recordHistory EXCEPT !.filters = newFilters],
                          newFilters, recordHistory.sort),
              newFilters, recordHistory.sort)
  /\ UNCHANGED <<fn, arg, pc, ret, calls, response, lastIndex, history,
                 uploadReceipt, post>>

\* lines 335-345, then the effect
HandleClearFilters ==
  /\ Len(recordHistory.pending) + 2 <= MaxPending
  /\ LET clearedFilters == [category |-> "all", minAmount |-> <<>>]
     IN recordHistory' =
          loadRecords(
            loadRecords([recordHistory EXCEPT !.filters = clearedFilters],
                        clearedFilters, recordHistory.sort),
            clearedFilters, recordHistory.sort)
  /\ UNCHANGED <<fn, arg, pc, ret, calls, response, lastIndex, history,
                 uploadReceipt, post>>

\* lines 347-359, then the effect
HandleSort ==
  /\ Len(recordHistory.pending) + 2 <= MaxPending
  /\ \E field \in {"date", "amount"} :
       LET newDirection ==
             IF recordHistory.sort.field = field
                /\ recordHistory.sort.direction = "asc" THEN "desc"
             ELSE "asc"
           newSort == [field |-> field, direction |-> newDirection]
       IN recordHistory' =
            loadRecords(
              loadRecords([recordHistory EXCEPT !.sort = newSort],
                          recordHistory.filters, newSort),
              recordHistory.filters, newSort)
  /\ UNCHANGED <<fn, arg, pc, ret, calls, response, lastIndex, history,
                 uploadReceipt, post>>

\* lines 318-320: the recordAdded event
HandleRecordAdded ==
  /\ Len(recordHistory.pending) + 1 <= MaxPending
  /\ recordHistory' =
       loadRecords(recordHistory, recordHistory.filters, recordHistory.sort)
  /\ UNCHANGED <<fn, arg, pc, ret, calls, response, lastIndex, history,
                 uploadReceipt, post>>

\* lines 296-309: one of the calls goes on after its await; the server
\* answered with records, with an error, or the call threw
LoadRecordsAnswer ==
  /\ \E i \in 1..Len(recordHistory.pending) :
       \E answer \in {"records", "fetchError", "throws"} :
         recordHistory' =
           [recordHistory EXCEPT
              !.records = IF answer = "records" THEN <<recordHistory.pending[i]>>
                          ELSE @,
              !.error = CASE answer = "records" -> Null
                          [] answer = "fetchError" -> Some("Database error")
                          [] answer = "throws" -> Some("Failed to load records"),
              !.loading = FALSE,
              !.pending = SubSeq(@, 1, i - 1) \o SubSeq(@, i + 1, Len(@))]
  /\ UNCHANGED <<fn, arg, pc, ret, calls, response, lastIndex, history,
                 uploadReceipt, post>>

RecordHistorySpec ==
  /\ ComponentsInit
  /\ [][
        \/ HandleFilterChange
        \/ HandleClearFilters
        \/ HandleSort
        \/ HandleRecordAdded
        \/ LoadRecordsAnswer
     ]_vars

(***************************************************************************)
(* POST of /api/upload-receipt (route.ts, lines 20-114), one request.  pc   *)
(* is the await the handler stands at; file is the uploaded file, held as   *)
(* its type and the text that pdf-parse or the OCR reads from it; uploads   *)
(* is the Upload table and aiCalls counts the calls of parseTextWithAI.     *)
(***************************************************************************)
\* lines 37-40: isPDF || isImage
isPDFOrImageAlways(fileType) == TRUE

isPDFOrImage(fileType) ==
  \/ fileType = <<"a", "p", "p", "l", "i", "c", "a", "t", "i", "o", "n", "/", "p", "d", "f">>
  \/ OccursAt(fileType, <<"i", "m", "a", "g", "e", "/">>, 1)

\* lines 20-26: a request arrives with its file, and auth() names the user,
\* names none, or throws
PostAuth ==
  /\ post.pc = "idle"
  /\ \E auth \in {"user_1", "none", "throws"} :
       \E file \in {Null}
                  \cup {Some(f) :
                          f \in [type : {<<"a", "p", "p", "l", "i", "c", "a", "t", "i",
                                           "o", "n", "/", "p", "d", "f">>,
                                         <<"i", "m", "a", "g", "e", "/", "p", "n", "g">>,
                                         <<"t", "e", "x", "t", "/", "p", "l", "a", "i",
                                           "n">>},
                                 text : {<<>>, <<" ", "\n">>, <<"h", "o", "l", "a">>}]} :
         post' = IF auth = "throws"
                 THEN [post EXCEPT !.pc = "done", !.file = file, !.status = Some(500)]
                 ELSE IF auth = "none"
                 THEN [post EXCEPT !.pc = "done", !.file = file, !.status = Some(401)]
                 ELSE [post EXCEPT !.pc = "formData", !.file = file,
                                   !.userId = Some(auth)]
  /\ UNCHANGED <<fn, arg, pc, ret, calls, response, lastIndex, history,
                 uploadReceipt, recordHistory>>

\* lines 29-47
PostFormData ==
  /\ post.pc = "formData"
  /\ post' = IF IsNull(post.file)
             THEN [post EXCEPT !.pc = "done", !.status = Some(400)]
             ELSE IF ~isPDFOrImage(Val(post.file).type)
             THEN [post EXCEPT !.pc = "done", !.status = Some(400)]
             ELSE [post EXCEPT !.pc = "extract"]
  /\ UNCHANGED <<fn, arg, pc, ret, calls, response, lastIndex, history,
                 uploadReceipt, recordHistory>>

\* lines 50-74
PostExtractText ==
  /\ post.pc = "extract"
  /\ LET extractedText == Val(post.file).text
     IN post' = IF trim(extractedText) = <<>>
                THEN [post EXCEPT !.pc = "done", !.status = Some(400),
                                  !.extractedText = extractedText]
                ELSE [post EXCEPT !.pc = "parse", !.extractedText = extractedText]
  /\ UNCHANGED <<fn, arg, pc, ret, calls, response, lastIndex, history,
                 uploadReceipt, recordHistory>>

\* line 78: parseTextWithAI asks the AI model and returns a result whatever
\* the answer is
PostParseTextWithAI ==
  /\ post.pc = "parse"
  /\ \E r \in Responses \cup {[kind |-> "rejected"]} :
       post' = [post EXCEPT !.pc = "create",
                            !.parsedData = Some(parseTextWithAI(post.extractedText, r)),
                            !.aiCalls = @ + 1]
  /\ UNCHANGED <<fn, arg, pc, ret, calls, response, lastIndex, history,
                 uploadReceipt, recordHistory>>

\* lines 81-105: suggestCategory, db.upload.create and the answer
PostCreate ==
  /\ post.pc = "create"
  /\ post' = [post EXCEPT
                !.pc = "done",
                !.status = Some(200),
                !.uploads = Append(@, [userId |-> Val(post.userId),
                                       ocrText |-> post.extractedText,
                                       parsed |-> Val(post.parsedData)])]
  /\ UNCHANGED <<fn, arg, pc, ret, calls, response, lastIndex, history,
                 uploadReceipt, recordHistory>>

\* lines 107-113: an awaited call of the handler throws
PostCatch ==
  /\ post.pc \in {"formData", "extract", "create"}
  /\ post' = [post EXCEPT !.pc = "done", !.status = Some(500)]
  /\ UNCHANGED <<fn, arg, pc, ret, calls, response, lastIndex, history,
                 uploadReceipt, recordHistory>>

PostSpec ==
  /\ ComponentsInit
  /\ [][
        \/ PostAuth
        \/ PostFormData
        \/ PostExtractText
        \/ PostParseTextWithAI
        \/ PostCreate
        \/ PostCatch
     ]_vars

(***************************************************************************)
(* Properties                                                              *)
(***************************************************************************)
\* C1: heuristicExtraction of the receipt example yields a provider that
\* contains "Supermercado ABC", the amount 150.00, the currency "$", the date
\* "2025-01-15", a description that contains "alimentos" but neither "150.00"
\* nor "15/01/2025", and shouldUseLLM = false.
C1_ReceiptExample ==
  (fn = "heuristicExtraction" /\ pc = "done" /\ arg = ReceiptExample) =>
    /\ ~IsNull(ret.data.provider)
    /\ includes(Val(ret.data.provider),
                <<"S", "u", "p", "e", "r", "m", "e", "r", "c", "a", "d", "o", " ", "A", "B", "C">>)
    /\ ret.data.amount = Some(15000)
    /\ ret.data.currency = Some(<<"$">>)
    /\ ret.data.date = Some(<<"2", "0", "2", "5", "-", "0", "1", "-", "1", "5">>)
    /\ ~IsNull(ret.data.description)
    /\ includes(Val(ret.data.description), <<"a", "l", "i", "m", "e", "n", "t", "o", "s">>)
    /\ ~includes(Val(ret.data.description), <<"1", "5", "0", ".", "0", "0">>)
    /\ ~includes(Val(ret.data.description),
                 <<"1", "5", "/", "0", "1", "/", "2", "0", "2", "5">>)
    /\ ~ret.shouldUseLLM

\* C2: for every result of heuristicExtraction, overallConfidence is
\* 0.4*amount + 0.3*date + 0.2*provider + 0.1*description of its confidences,
\* and shouldUseLLM is true exactly when that sum is below 0.6, or the amount
\* is absent, or date and provider are both absent; so it is true whenever the
\* amount is absent and false whenever all four fields are present with every
\* confidence at least 0.8.
C2_ShouldUseLLM ==
  (fn = "heuristicExtraction" /\ pc = "done") =>
    LET c == ret.data.confidence
        weighted == 4 * c.amount[1] + 3 * c.date[1] + 2 * c.provider[1] + c.description[1]
        noAmount == IsNull(ret.data.amount)
        noDate == IsNull(ret.data.date)
        noProvider == IsNull(ret.data.provider)
    IN /\ ret.overallConfidence = weighted
       /\ ret.shouldUseLLM <=> (weighted < 600 \/ noAmount \/ (noDate /\ noProvider))
       /\ noAmount => ret.shouldUseLLM
       /\ (/\ ~noAmount /\ ~noDate /\ ~noProvider /\ ~IsNull(ret.data.description)
           /\ FLeq(Lit(80), c.amount) /\ FLeq(Lit(80), c.date)
           /\ FLeq(Lit(80), c.provider) /\ FLeq(Lit(80), c.description))
          => ~ret.shouldUseLLM

\* C2 happens: a receipt with all four fields found, every confidence at least
\* 0.8, that is not escalated
C2_Witness ==
  /\ fn = "heuristicExtraction" /\ pc = "done"
  /\ ~IsNull(ret.data.amount) /\ ~IsNull(ret.data.date) /\ ~IsNull(ret.data.provider)
  /\ FLeq(Lit(80), ret.data.confidence.amount) /\ FLeq(Lit(80), ret.data.confidence.date)
  /\ FLeq(Lit(80), ret.data.confidence.provider)
  /\ FLeq(Lit(80), ret.data.confidence.description)
  /\ ~ret.shouldUseLLM

\* C3: extractAmount("Total: $1.234,56") returns the amount 1234.56, the
\* currency "$" and a confidence of at least 0.95.
C3_TotalWithSymbol ==
  (fn = "extractAmount" /\ pc = "done"
   /\ arg = <<"T", "o", "t", "a", "l", ":", " ", "$", "1", ".", "2", "3", "4", ",", "5", "6">>) =>
    /\ ret.amount = Some(123456)
    /\ ret.currency = Some(<<"$">>)
    /\ FLeq(Lit(95), ret.confidence)

\* C4: extractDate reads N1/N2/YYYY as day-month-year when N1 > 12 and as
\* month-day-year otherwise: extractDate("15/01/2025") and
\* extractDate("01/15/2025") both return the date "2025-01-15".
C4_DayMonthOrder ==
  (fn = "extractDate" /\ pc = "done"
   /\ arg \in {<<"1", "5", "/", "0", "1", "/", "2", "0", "2", "5">>,
               <<"0", "1", "/", "1", "5", "/", "2", "0", "2", "5">>}) =>
    ret.date = Some(<<"2", "0", "2", "5", "-", "0", "1", "-", "1", "5">>)

\* C5: for a text '<day> <month name> <4-digit year>' extractDate returns the
\* ISO date with confidence 0.9: extractDate("15 enero 2025") returns
\* "2025-01-15" with confidence 0.9.
C5_MonthName ==
  (fn = "extractDate" /\ pc = "done"
   /\ arg = <<"1", "5", " ", "e", "n", "e", "r", "o", " ", "2", "0", "2", "5">>) =>
    /\ ret.date = Some(<<"2", "0", "2", "5", "-", "0", "1", "-", "1", "5">>)
    /\ ret.confidence = Lit(90)

\* C6: extractDate returns either {date: null, confidence: 0} or a date
\* YYYY-MM-DD with confidence exactly 0.9 whose year is in 1900..2100, month in
\* 1..12 and day within the length of that month, leap years included; a text
\* whose only date-shaped substrings are outside the calendar, like
\* "32/13/2025", returns {null, 0}.
C6_ValidDateOrNull ==
  (fn = "extractDate" /\ pc = "done") =>
    LET none == [date |-> Null, confidence |-> Lit(0)]
        leap(y) == y % 4 = 0 /\ (y % 100 # 0 \/ y % 400 = 0)
        length(y, m) == IF m \in {4, 6, 9, 11} THEN 30
                        ELSE IF m # 2 THEN 31
                        ELSE IF leap(y) THEN 29 ELSE 28
        calendar(y, m, d) == /\ y \in 1900..2100 /\ m \in 1..12
                             /\ d \in 1..length(y, m)
        iso == Val(ret.date)
    IN /\ \/ ret = none
          \/ /\ ~IsNull(ret.date)
             /\ ret.confidence = Lit(90)
             /\ Len(iso) = 10
             /\ iso[5] = "-" /\ iso[8] = "-"
             /\ \A i \in {1, 2, 3, 4, 6, 7, 9, 10} : iso[i] \in Digit
             /\ calendar(DigitsValue(SubSeq(iso, 1, 4)), DigitsValue(SubSeq(iso, 6, 7)),
                         DigitsValue(SubSeq(iso, 9, 10)))
       /\ arg = <<"3", "2", "/", "1", "3", "/", "2", "0", "2", "5">> => ret = none
       /\ \A y \in DateYears, m \in DateMonths, d \in DateDays :
            (arg = YearMonthDay(y, m, d) /\ ~calendar(y, m, d)) => ret = none

\* C6 happens: the leap day of 2024 is found and returned
C6_Witness ==
  /\ fn = "extractDate" /\ pc = "done"
  /\ arg = YearMonthDay(2024, 2, 29)
  /\ ret = [date |-> Some(<<"2", "0", "2", "4", "-", "0", "2", "-", "2", "9">>),
            confidence |-> Lit(90)]

\* C7: for a string of digits, dots and commas with at least one digit,
\* normalizeAmount splits on every dot and comma and returns the integer for
\* one segment; otherwise, when the last segment has at most 2 characters, the
\* earlier segments joined as the integer part and the last segment as the
\* decimal fraction, else all segments joined as an integer.  So "123.45" is
\* 123.45 and "1,234.56" and "1.234,56" are 1234.56.
C7_Segments ==
  (fn = "normalizeAmount" /\ pc = "done") =>
    LET separators == {i \in 1..Len(arg) : arg[i] \in {".", ","}}
        cut == IF separators = {} THEN 0 ELSE Max(separators)
        earlier == Filter(SubSeq(arg, 1, cut), Digit)
        last == SubSeq(arg, cut + 1, Len(arg))
        fraction == IF Len(last) = 1 THEN 10 * DigitsValue(last) ELSE DigitsValue(last)
        value == IF cut = 0 THEN 100 * DigitsValue(arg)
                 ELSE IF Len(last) <= 2 THEN 100 * DigitsValue(earlier) + fraction
                 ELSE 100 * DigitsValue(earlier \o last)
    IN /\ (/\ Range(arg) \subseteq Digit \cup {".", ","}
           /\ Range(arg) \cap Digit # {}) => ret = Some(value)
       /\ arg = <<"1", "2", "3", ".", "4", "5">> => ret = Some(12345)
       /\ arg = <<"1", ",", "2", "3", "4", ".", "5", "6">> => ret = Some(123456)
       /\ arg = <<"1", ".", "2", "3", "4", ",", "5", "6">> => ret = Some(123456)

\* C7 happens: a dot groups the thousands and a comma starts the decimals
C7_Witness ==
  /\ fn = "normalizeAmount" /\ pc = "done"
  /\ arg = <<"1", ".", "2", "3", "4", ",", "5", "6">>
  /\ ret = Some(123456)

\* C8: extractAmount("0.05") returns a confidence no higher than 0.4.
C8_SmallValue ==
  (fn = "extractAmount" /\ pc = "done" /\ arg = <<"0", ".", "0", "5">>) =>
    FLeq(ret.confidence, Lit(40))

\* C9: validateAndFixFields is idempotent: for every record r for which it
\* returns, validateAndFixFields(validateAndFixFields(r)) equals
\* validateAndFixFields(r) in every field.
C9_Idempotent ==
  (fn = "validateAndFixFields" /\ calls = 2) => ret = arg

\* C10: for every text and provider, null included, extractDescription returns
\* a description that is neither null nor empty; when no match survives the
\* filters it is "Compra en {provider}" with confidence 0.5 if a provider was
\* given and "Gasto registrado" with confidence 0.3 otherwise.
C10_DescriptionAlways ==
  (fn = "extractDescription" /\ pc = "done") =>
    LET given == ~IsNull(arg.provider) /\ Val(arg.provider) # <<>>
    IN /\ ~IsNull(ret.description)
       /\ Val(ret.description) # <<>>
       /\ (DescriptionSurvivors(arg.text, arg.provider) = <<>> /\ given) =>
            ret = [description |->
                     Some(<<"C", "o", "m", "p", "r", "a", " ", "e", "n", " ">>
                          \o Val(arg.provider)),
                   confidence |-> Lit(50)]
       /\ (DescriptionSurvivors(arg.text, arg.provider) = <<>> /\ ~given) =>
            ret = [description |->
                     Some(<<"G", "a", "s", "t", "o", " ", "r", "e", "g", "i", "s", "t",
                            "r", "a", "d", "o">>),
                   confidence |-> Lit(30)]

\* C10 happens: nothing of the text survives and the provider names the purchase
C10_Witness ==
  /\ fn = "extractDescription" /\ pc = "done"
  /\ arg.provider = Some(<<"F", "o", "o">>)
  /\ DescriptionSurvivors(arg.text, arg.provider) = <<>>
  /\ ret = [description |-> Some(<<"C", "o", "m", "p", "r", "a", " ", "e", "n", " ", "F",
                                "o", "o">>),
            confidence |-> Lit(50)]

\* C11: every call of normalizeAmount, extractAmount, extractDate,
\* extractProvider, extractDescription, heuristicExtraction and
\* validateAndFixFields returns a well-formed result and never throws;
\* validateAndFixFields returns normally for every provider string.
C11_Total ==
  \A i \in 1..Len(history) :
    LET c == history[i]
        ExtractedData == {"description", "provider", "amount", "currency", "date",
                          "confidence"}
    IN CASE c.fn = "validateAndFixFields" -> DOMAIN c.ret = ExtractedData
         [] c.fn = "parseTextWithAI" -> DOMAIN c.ret = ExtractedData
         [] c.fn = "normalizeAmount" -> c.ret = Null \/ Val(c.ret) \in Nat
         [] c.fn = "extractAmount" -> DOMAIN c.ret = {"amount", "currency", "confidence"}
         [] c.fn = "extractDate" -> DOMAIN c.ret = {"date", "confidence"}
         [] c.fn = "extractProvider" -> DOMAIN c.ret = {"provider", "confidence"}
         [] c.fn = "extractDescription" -> DOMAIN c.ret = {"description", "confidence"}
         [] c.fn = "heuristicExtraction" ->
              DOMAIN c.ret = {"data", "shouldUseLLM", "overallConfidence"}

\* C12: for every text, extractAmount returns {amount: null, currency: null,
\* confidence: 0} exactly when no match of a pattern normalizes to a positive
\* number, and otherwise an amount greater than 0 with a currency that is not
\* null.
C12_PositiveOrNone ==
  (fn = "extractAmount" /\ pc = "done") =>
    LET none == [amount |-> Null, currency |-> Null, confidence |-> Lit(0)]
        normalized(m) == normalizeAmount(AmountAndCurrency(m).amountStr)
        positive(m) == ~IsNull(normalized(m)) /\ Val(normalized(m)) > 0
        parses == \E k \in 1..7 : \E j \in 1..Len(AmountMatchAll(k, arg)) :
                     positive(AmountMatchAll(k, arg)[j])
    IN /\ (ret = none) <=> ~parses
       /\ ret # none => /\ ~IsNull(ret.amount)
                        /\ Val(ret.amount) > 0
                        /\ ~IsNull(ret.currency)

\* C12 happens: the patterns match in "0.00" and no match is a positive number
C12_Witness ==
  /\ fn = "extractAmount" /\ pc = "done"
  /\ arg = <<"0", ".", "0", "0">>
  /\ \E k \in 1..7 : AmountMatchAll(k, arg) # <<>>
  /\ ret = [amount |-> Null, currency |-> Null, confidence |-> Lit(0)]

\* C13: in every ExtractedData that heuristicExtraction produces or
\* parseTextWithAI returns, confidence has the four entries amount, date,
\* provider and description, and the entry of a field that is null is 0.
C13_FourConfidences ==
  LET Scored == {"amount", "date", "provider", "description"}
      wellScored(data) ==
        /\ DOMAIN data.confidence = Scored
        /\ \A f \in Scored : IsNull(data[f]) => data.confidence[f] = Lit(0)
  IN /\ (fn = "heuristicExtraction" /\ pc = "done") => wellScored(ret.data)
     /\ (fn = "parseTextWithAI" /\ pc = "done") => wellScored(ret)

\* C14: every ExtractedData that parseTextWithAI returns has been passed
\* through validateAndFixFields before it is returned, on every path, the one
\* taken when the AI call or the JSON parsing fails included: what is returned
\* is what a call of validateAndFixFields made on the way returned.
C14_AlwaysValidated ==
  (fn = "parseTextWithAI" /\ pc = "done") =>
    \E i \in 1..Len(history) :
       /\ history[i].fn = "validateAndFixFields"
       /\ history[i].ret = ret

\* C15: whenever extractAmount returns an amount, the returned currency is a
\* currency symbol or code, or "USD"; it is never a numeric string: it holds
\* no digit.
C15_CurrencyIsCurrency ==
  (fn = "extractAmount" /\ pc = "done" /\ ~IsNull(ret.amount)) =>
    /\ ~IsNull(ret.currency)
    /\ \A i \in 1..Len(Val(ret.currency)) : Val(ret.currency)[i] \notin Digit

\* C17: the final confidence of every amount candidate, and so the confidence
\* extractAmount returns, lies in the closed interval [0, 1], for every text.
C17_ConfidenceInUnitInterval ==
  LET InUnit(c) == FLeq(Lit(0), c) /\ FLeq(c, Lit(100))
      Pooled(candidates) ==
        \A i \in 1..Len(candidates) : InUnit(candidates[i].confidence)
  IN (fn = "extractAmount" /\ pc = "done") =>
       /\ Pooled(AmountCandidates(arg))
       /\ InUnit(ret.confidence)

\* C18: extractAmount returns the top candidate of the pool: no pooled
\* candidate has a confidence higher than the returned one by 0.05 or more,
\* and no pooled candidate whose confidence is within 0.05 of the returned one
\* has a strictly larger amount.
C18_TopCandidate ==
  LET Abs(diff) == IF FLess(diff, <<0, 0>>) THEN <<0 - diff[1], 0 - diff[2]>> ELSE diff
      Top(candidates) ==
        \A i \in 1..Len(candidates) :
           /\ ~FLeq(Lit(5), FSub(candidates[i].confidence, ret.confidence))
           /\ FLess(Abs(FSub(candidates[i].confidence, ret.confidence)), Lit(5))
                => candidates[i].amount <= Val(ret.amount)
  IN (fn = "extractAmount" /\ pc = "done" /\ ~IsNull(ret.amount)) =>
       Top(AmountCandidates(arg))

\* C19: an amount candidate receives the +0.1 context boost if and only if
\* the 20 characters immediately before the start of its match, or the 20
\* characters immediately after the end of its match, contain "total" or
\* "suma", case-insensitively.
C19_BoostIffAround ==
  LET total == <<"t", "o", "t", "a", "l">>
      suma == <<"s", "u", "m", "a">>
      Named(context) == includes(context, total) \/ includes(context, suma)
      Around(text, m) ==
        \/ Named(toLowerCase(Sub(text, m.index - ContextLength, m.index - 1)))
        \/ Named(toLowerCase(Sub(text, m.end, m.end + ContextLength - 1)))
      Boosted(k, text, ms) ==
        \A i \in 1..Len(ms) :
           AmountCandidate(k, text, ms[i]) # <<>> =>
             (InTotalContext(text, ms[i].index) <=> Around(text, ms[i]))
  IN (fn = "extractAmount" /\ pc = "done") =>
       \A k \in 1..Len(AmountBase) : Boosted(k, arg, AmountMatchAll(k, arg))

\* C20: normalizeAmount returns null for every string that has no digits and
\* for every string that contains any character other than digits, dots and
\* commas; it never returns a number for such a string.
C20_NullOnResidue ==
  LET NoDigits(s) == \A i \in 1..Len(s) : s[i] \notin Digit
      Residue(s) == \E i \in 1..Len(s) : s[i] \notin Digit \cup {".", ","}
  IN (fn = "normalizeAmount" /\ pc = "done" /\ (NoDigits(arg) \/ Residue(arg))) =>
       IsNull(ret)

C21_BestProvider ==
  LET Name(m) == trim(collapseSpaces(trim(m.groups[1])))
      Survives(n) ==
        /\ Len(n) >= 3 /\ Len(n) <= 50
        /\ \A word \in ProviderSkipWords : ~includes(toUpperCase(n), word)
        /\ ~((\E x \in 1..Len(n) : n[x] \in Digit) /\ Len(n) < 8)
      Before(p, q) == p[1] < q[1] \/ (p[1] = q[1] /\ p[2] < q[2])
      Confidence(p) == Lit(ProviderConfidence[p[1]])
      Winner(pool, p) ==
        \A q \in pool :
           /\ FLeq(Confidence(q), Confidence(p))
           /\ Before(q, p) => FLess(Confidence(q), Confidence(p))
      Chosen(ms, pool) ==
        IF pool = {}
        THEN ret = [provider |-> Null, confidence |-> Lit(0)]
        ELSE \E p \in pool :
                /\ Winner(pool, p)
                /\ ret = [provider |-> Some(Name(ms[p[1]][p[2]])),
                          confidence |-> Confidence(p)]
      Pool(ms) ==
        Chosen(ms, {p \in UNION {{<<k, i>> : i \in 1..Len(ms[k])} : k \in DOMAIN ms} :
                      Survives(Name(ms[p[1]][p[2]]))})
  IN (fn = "extractProvider" /\ pc = "done") =>
       Pool([k \in 1..Len(ProviderConfidence) |-> ProviderMatchAll(k, arg)])

\* a text with two surviving names of the same, highest confidence: the first
\* one is returned
C21_Witness ==
  /\ fn = "extractProvider" /\ pc = "done"
  /\ arg = <<"J", "u", "a", "n", " ", "P", "e", "r", "e", "z", " ", "y", " ", "M", "a", "r",
             "i", "a", " ", "L", "o", "p", "e", "z">>
  /\ Len(ProviderSurvivorsFrom(1, arg)) = 2
  /\ ret.provider = Some(<<"J", "u", "a", "n", " ", "P", "e", "r", "e", "z">>)

\* C22: extractDescription rejects every match that contains, in any case,
\* one of the ten stop words of extractProvider (TOTAL, SUBTOTAL, IVA,
\* DESCUENTO, PAGO, FECHA, HORA, CANTIDAD, PRECIO, ITEM): no description it
\* returns from a pattern match contains any of them.
C22_NoStopWord ==
  ( /\ fn = "extractDescription" /\ pc = "done"
    /\ DescriptionSurvivors(arg.text, arg.provider) # <<>> )
  => \A word \in ProviderSkipWords :
        ~includes(toUpperCase(Val(ret.description)), word)

\* C23: every description extractDescription returns from a pattern match (not
\* from one of the two fallbacks) has between 5 and 100 characters and does
\* not contain the provider name, in any case.
C23_DescriptionShape ==
  LET Shaped(description, provider) ==
        /\ Len(description) >= 5 /\ Len(description) <= 100
        /\ (~IsNull(provider) /\ Val(provider) # <<>>)
             => ~includes(toLowerCase(description), toLowerCase(Val(provider)))
  IN ( /\ fn = "extractDescription" /\ pc = "done"
       /\ DescriptionSurvivors(arg.text, arg.provider) # <<>> )
     => Shaped(Val(ret.description), arg.provider)

\* C24: validateAndFixFields changes amount, provider or date only when the
\* trigger holds on its input (a description longer than 50 characters while
\* provider and amount are both absent); when the trigger is false the three
\* fields are unchanged, and in every case currency and the four confidence
\* entries are unchanged.
C24_Frame ==
  LET Trigger(result) ==
        /\ ~IsNull(result.description)
        /\ Len(Val(result.description)) > 50
        /\ IsNull(result.provider)
        /\ IsNull(result.amount)
      Framed(in, out) ==
        /\ out.currency = in.currency
        /\ out.confidence = in.confidence
        /\ ~Trigger(in) =>
             /\ out.amount = in.amount
             /\ out.provider = in.provider
             /\ out.date = in.date
  IN (fn = "validateAndFixFields" /\ pc = "done" /\ ret # SyntaxError) =>
       Framed(arg, ret)

\* C25: whenever validateAndFixFields assigns a date from the description, the
\* assigned value is a calendar date in the form YYYY-MM-DD: a year of 4
\* digits, a month in 01..12 and a day that the month has.
C25_RepairedDateIsCalendarDate ==
  LET IsLeap(y) == (y % 4 = 0 /\ y % 100 # 0) \/ y % 400 = 0
      DaysIn(y, m) ==
        IF m = 2 THEN (IF IsLeap(y) THEN 29 ELSE 28)
        ELSE IF m \in {4, 6, 9, 11} THEN 30 ELSE 31
      Calendar(y, m, d) == m >= 1 /\ m <= 12 /\ d >= 1 /\ d <= DaysIn(y, m)
      Iso(date) ==
        /\ Len(date) = 10
        /\ date[5] = "-" /\ date[8] = "-"
        /\ \A i \in {1, 2, 3, 4, 6, 7, 9, 10} : date[i] \in Digit
        /\ Calendar(DigitsValue(SubSeq(date, 1, 4)), DigitsValue(SubSeq(date, 6, 7)),
                    DigitsValue(SubSeq(date, 9, 10)))
  IN ( /\ fn = "validateAndFixFields" /\ pc = "done" /\ ret # SyntaxError
       /\ ret.date # arg.date )
     => Iso(Val(ret.date))

\* C26: after validateAndFixFields returns with a description that is not one
\* of the fallbacks "Compra en {provider}" and "Compra general", the
\* description contains no digit, no date-shaped substring and, when provider
\* is not null, no occurrence of the provider string in any case; a scrubbed
\* description shorter than 5 characters is replaced by the fallback.
C26_Scrubbed ==
  LET CompraGeneral ==
        <<"C", "o", "m", "p", "r", "a", " ", "g", "e", "n", "e", "r", "a", "l">>
      Fallbacks(provider) ==
        {CompraGeneral} \cup
        (IF IsNull(provider) THEN {} ELSE {CompraEn \o Val(provider)})
      Clean(description, provider) ==
        /\ \A i \in 1..Len(description) : description[i] \notin Digit
        /\ \A i \in 1..Len(description) : DateShapeAt(description, i) = NoMatch
        /\ (~IsNull(provider) /\ Val(provider) # <<>>)
             => ~includes(toLowerCase(description), toLowerCase(Val(provider)))
        /\ Len(description) >= 5
  IN ( /\ fn = "validateAndFixFields" /\ pc = "done" /\ ret # SyntaxError
       /\ ~IsNull(arg.description) /\ Val(arg.description) # <<>>
       /\ Val(ret.description) \notin Fallbacks(ret.provider) )
     => Clean(Val(ret.description), ret.provider)

\* C27: in extractDate a date-shaped match that fails calendar validation is
\* skipped without ending the scan: when a text holds an invalid date-shaped
\* match followed by a valid one (later in the same pattern family, or of a
\* later family), extractDate returns a date with confidence 0.9, not null.
\* A match of the first family is read day first when its first number
\* exceeds 12 and month first otherwise, one of the second as year, month,
\* day, one of the third as day, month name, year.
C27_InvalidSkipped ==
  LET IsLeap(y) == (y % 4 = 0 /\ y % 100 # 0) \/ y % 400 = 0
      DaysIn(y, m) ==
        IF m = 2 THEN (IF IsLeap(y) THEN 29 ELSE 28)
        ELSE IF m \in {4, 6, 9, 11} THEN 30 ELSE 31
      Calendar(y, m, d) ==
        /\ y >= 1900 /\ y <= 2100
        /\ m >= 1 /\ m <= 12
        /\ d >= 1 /\ d <= DaysIn(y, m)
      Valid(k, g) ==
        CASE k = 1 ->
               IF DigitsValue(g[1]) > 12
               THEN Calendar(DigitsValue(g[3]), DigitsValue(g[2]), DigitsValue(g[1]))
               ELSE Calendar(DigitsValue(g[3]), DigitsValue(g[1]), DigitsValue(g[2]))
          [] k = 2 -> Calendar(DigitsValue(g[1]), DigitsValue(g[2]), DigitsValue(g[3]))
          [] k = 3 -> Calendar(DigitsValue(g[3]), findMonthIndex(toLowerCase(g[2])) + 1,
                               DigitsValue(g[1]))
      Before(p, q) == p[1] < q[1] \/ (p[1] = q[1] /\ p[2] < q[2])
      Skipped(ms, all) ==
        (\E p \in all : \E q \in all :
            /\ Before(p, q)
            /\ ~Valid(p[1], ms[p[1]][p[2]].groups)
            /\ Valid(q[1], ms[q[1]][q[2]].groups))
        => (~IsNull(ret.date) /\ ret.confidence = Lit(90))
      Matches(ms) ==
        Skipped(ms, UNION {{<<k, i>> : i \in 1..Len(ms[k])} : k \in DOMAIN ms})
  IN (fn = "extractDate" /\ pc = "done") =>
       Matches([k \in 1..3 |-> DateMatchAll(k, arg)])

\* C28: in UploadReceipt, whenever an upload request started by processFile is
\* still in flight, uploadState.isUploading is true, in every interleaving of
\* file selection, drag and drop, request completion, modal success and the
\* 3-second timer.
C28_UploadingWhileInFlight ==
  uploadReceipt.inFlight > 0 => uploadReceipt.uploadState.isUploading

\* C29: in RecordHistory, once every outstanding loadRecords call has
\* completed and no error is shown, the records shown are those of the filters
\* and the sort selected last, in whatever order the answers arrived.
C29_LatestRecordsShown ==
  (recordHistory.pending = <<>> /\ IsNull(recordHistory.error))
    => recordHistory.records
         = <<filterOptions(recordHistory.filters, recordHistory.sort)>>

\* C30: POST creates an Upload record only after, in this order, the user was
\* authenticated, a PDF or image file was provided and a text that is not
\* empty was extracted; an answer 401 or 400 is given with no Upload record
\* written and no call of the AI model made.
C30_ChecksBeforeCreate ==
  LET Authenticated == ~IsNull(post.userId)
      FileProvided ==
        /\ ~IsNull(post.file)
        /\ LET type == Val(post.file).type
           IN \/ type = <<"a", "p", "p", "l", "i", "c", "a", "t", "i", "o", "n", "/",
                          "p", "d", "f">>
              \/ SubSeq(type, 1, 6) = <<"i", "m", "a", "g", "e", "/">>
      TextExtracted ==
        \E i \in 1..Len(post.extractedText) :
           post.extractedText[i] \notin {" ", "\n", "\t", "\r"}
  IN /\ post.pc \in {"formData", "extract", "parse", "create"}
          => Authenticated
     /\ post.pc \in {"extract", "parse", "create"}
          => Authenticated /\ FileProvided
     /\ post.pc \in {"parse", "create"}
          => Authenticated /\ FileProvided /\ TextExtracted
     /\ (post.uploads # <<>> \/ post.aiCalls > 0)
          => Authenticated /\ FileProvided /\ TextExtracted
     /\ post.status \in {Some(401), Some(400)}
          => post.uploads = <<>> /\ post.aiCalls = 0
     /\ post.status = Some(401) => ~Authenticated
     /\ (post.status = Some(400) /\ Authenticated)
          => ~(FileProvided /\ TextExtracted)

C30_Witness ==
  /\ post.pc = "done"
  /\ post.status = Some(200)
  /\ Len(post.uploads) = 1
  /\ post.aiCalls = 1
  /\ post.uploads[1].ocrText = <<"h", "o", "l", "a">>

====
